---- MODULE Spec2Model ----
\* The AutoGet download lifecycle engine: the status store, the torrent daemon
\* as seen through the Transmission RPC, the organizer service as seen through
\* its HTTP client, the two periodic passes of a downloader (ProgressChecker,
\* checkDailySeeding) and the HTTP handlers that create and organize download
\* records (indexerDownload, organizeDownload).
EXTENDS Integers, Sequences, FiniteSets, Bags, TLC

\* ------------------------------------------------------------------ bounds

\* Calendar days are numbered 0..MaxDay.
MaxDay == 1

\* The info-hashes and the downloaders of the specification Spec.
Hashes == {"h1"}
Downloaders == {"dl"}

\* ---------------------------------------------------- program constants

StoreMaxDays == 30

DownloadStarted == 0
DownloadSeeding == 1
DownloadStopped == 2
DownloadDeleted == 3

UnMoved == 0
Moved == 1

Unplaned == 0
Planed == 1
Organized == 2
CreatePlanFailed == 3
ExecutePlanFailed == 4

\* The busy threshold of ProgressChecker, in bytes per second.
BusySpeed == 2 * 1000 * 1000

\* The configured seeding policy of every downloader of the model.
IntervalInDays == 1
UploadAtLeastInMB == 1

\* SeedingPolicy.Validate: whether the configuration is accepted.
Validate(p) ==
    /\ ~(p.IntervalInDays = 0)
    /\ ~(p.IntervalInDays > StoreMaxDays)
    /\ ~(p.UploadAtLeastInMB = 0)

\* The hour of the day at which the cron expression "0 8 * * *" fires.
CronHour == 8

\* ------------------------------------------------------------ data values

\* The daemon's torrent statuses the code distinguishes (TorrentStatusSeed
\* against every other status).
TorrentStatusDownload == "download"
TorrentStatusSeed == "seed"
TorrentStatusStopped == "stopped"

\* PercentDone is a fraction in [0, 1]; the model holds it in ten-thousandths.
PercentScale == 10000
PercentValues == {5005, 10000}

MiB == 1024 * 1024
UploadedValues == {0, MiB + 1}

TotalSize == 7
DaemonName == "daemon-name"
DaemonFiles == <<"a.mkv">>
IndexerTitle == "indexer-title"
IndexerFiles == <<"a.mkv", "extra.nfo">>
IndexerMetadata == "indexer-metadata"
NoMetadata == ""

\* A nil map / nil pointer against an allocated one.
NilHistories == [isNil |-> TRUE, m |-> <<>>]
EmptyHistories == [isNil |-> FALSE, m |-> <<>>]

NilPlans == [isNil |-> TRUE, plan |-> <<>>, error |-> ""]
PlanResponse(plan, error) == [isNil |-> FALSE, plan |-> plan, error |-> error]

PlanAction(file, action, target) == [file |-> file, action |-> action, target |-> target]
ActionMove == "move"
ActionSkip == "skip"

\* The plan responses the organizer of the model can produce.
PlanA == PlanResponse(<<PlanAction("a.mkv", ActionMove, "/lib/a.mkv")>>, "")
PlanB == PlanResponse(<<PlanAction("a.mkv", ActionSkip, "")>>, "")
PlanErr == PlanResponse(<<>>, "ambiguous")

PlanFailed(file, action, target, reason) ==
    [file |-> file, action |-> action, target |-> target, reason |-> reason]
FailedMoves == <<PlanFailed("a.mkv", ActionMove, "/lib/a.mkv", "EACCES")>>

\* ------------------------------------------------------------------ state

VARIABLES
    store,      \* the download_statuses table: id -> row
    daemon,     \* downloader -> (hash -> torrent), the daemon's torrent list
    today,      \* the current calendar day
    seedRan,    \* downloader -> the last day its daily seeding job fired (-1: never)
    last,       \* the last operation of the program and what it answered
    run         \* the operations in progress: what each has read and been answered

vars == <<store, daemon, today, seedRan, last, run>>

\* A row of the table (DownloadStatus).
DownloadStatus(d, state, title, files, metadata, hist) ==
    [downloader |-> d,
     download_progress |-> 0,
     size |-> 0,
     state |-> state,
     upload_histories |-> hist,
     res_title |-> title,
     file_list |-> files,
     metadata |-> metadata,
     move_state |-> UnMoved,
     organize_state |-> Unplaned,
     organize_plans |-> NilPlans]

Torrent(status, percent, uploaded) ==
    [status |-> status,
     percent_done |-> percent,
     total_size |-> TotalSize,
     uploaded_ever |-> uploaded,
     name |-> DaemonName,
     files |-> DaemonFiles]

\* What an operation leaves behind for the observer: the HTTP answer of a
\* handler, the organizer calls and daemon RPCs it made, what the organizer
\* answered (by record id), whether it panicked. tick flips with every
\* operation of the program, so that two operations in a row differ.
Outcome(op, id, code, body, calls, rpcs, panicked, replies) ==
    [op |-> op, id |-> id, code |-> code, body |-> body,
     calls |-> calls, rpcs |-> rpcs, panicked |-> panicked,
     replies |-> replies, hint |-> "", tick |-> 1 - last.tick]

Body(status, error, failed, plan) ==
    [status |-> status, error |-> error, failed |-> failed, plan |-> plan]

ErrorBody(error) == Body("", error, <<>>, NilPlans)

NoOutcome ==
    [op |-> "none", id |-> "", code |-> 0, body |-> ErrorBody(""),
     calls |-> {}, rpcs |-> {}, panicked |-> FALSE, replies |-> <<>>,
     hint |-> "", tick |-> 0]

\* ------------------------------------------------------------ the store

SaveDownloadStatus(st, id, row) ==
    IF id \in DOMAIN st THEN [st EXCEPT ![id] = row] ELSE (id :> row) @@ st

UpdateDownloadStateForStatuses(st, ids, state) ==
    [id \in DOMAIN st |-> IF id \in ids THEN [st[id] EXCEPT !.state = state] ELSE st[id]]

\* Mutant: the unfinished query without its downloader condition.
GetUnfinishedDownloadStatusOfAnyDownloader(st, d) ==
    {id \in DOMAIN st : st[id].state = DownloadStarted}

GetUnfinishedDownloadStatusByDownloader(st, d) ==
    {id \in DOMAIN st : st[id].downloader = d /\ st[id].state = DownloadStarted}

\* Mutant: the finished-unmoved query without its state filter.
GetUnmovedDownloadStatusOfAnyState(st, d) ==
    {id \in DOMAIN st : st[id].downloader = d /\ st[id].move_state = UnMoved}

GetDownloadStatusByDownloaderAndState(st, d, state) ==
    {id \in DOMAIN st : st[id].downloader = d /\ st[id].state = state}

GetFinishedUnmoveedDownloadStatusByDownloader(st, d) ==
    {id \in DOMAIN st : /\ st[id].downloader = d
                        /\ st[id].state >= DownloadSeeding
                        /\ st[id].move_state = UnMoved}

\* Mutant: the stopped-moved query without its move_state filter.
GetStoppedDownloadStatusOfAnyMoveState(st, d) ==
    {id \in DOMAIN st : st[id].downloader = d /\ st[id].state = DownloadStopped}

GetStoppedMovedDownloadStatusByDownloader(st, d) ==
    {id \in DOMAIN st : /\ st[id].downloader = d
                        /\ st[id].state = DownloadStopped
                        /\ st[id].move_state >= Moved}

\* Mutant: the organize-state query without its move_state filter.
GetOrganizeStateDownloadStatusOfAnyMoveState(st, d, organizeState) ==
    {id \in DOMAIN st : /\ st[id].downloader = d
                        /\ st[id].state # DownloadDeleted
                        /\ st[id].organize_state = organizeState}

\* Mutant: the moved query without its organize_state condition.
GetMovedDownloadStatusOfAnyOrganizeState(st, d, organizeState) ==
    {id \in DOMAIN st : /\ st[id].downloader = d
                        /\ st[id].state # DownloadDeleted
                        /\ st[id].move_state = Moved}

\* Mutant: the moved query without its state != Deleted condition.
GetMovedAndOrganizeStateOfAnyState(st, d, organizeState) ==
    {id \in DOMAIN st : /\ st[id].downloader = d
                        /\ st[id].move_state = Moved
                        /\ st[id].organize_state = organizeState}

GetMovedAndOrganizeStateDownloadStatusByDownloader(st, d, organizeState) ==
    {id \in DOMAIN st : /\ st[id].downloader = d
                        /\ st[id].state # DownloadDeleted
                        /\ st[id].move_state = Moved
                        /\ st[id].organize_state = organizeState}

\* ------------------------------------------------------ upload histories

\* AddToday on an allocated map (on a nil map the assignment panics).
\* Mutant: a sample that adds to the day's value instead of replacing it.
AddTodayAccumulating(hist, day, b) ==
    [isNil |-> FALSE,
     m |-> (day :> (IF day \in DOMAIN hist.m THEN hist.m[day] + b ELSE b)) @@ hist.m]

AddToday(hist, day, b) ==
    [isNil |-> FALSE, m |-> (day :> b) @@ hist.m]

\* GetXDayBefore: (value, ok).
GetXDayBefore(hist, day, x) ==
    IF (day - x) \in DOMAIN hist.m
    THEN [n |-> hist.m[day - x], ok |-> TRUE]
    ELSE [n |-> 0, ok |-> FALSE]

\* CleanupHistory at CronHour of `day`: a key is dropped when more than
\* StoreMaxDays*24 hours lie between its midnight and now.
CleanupHistory(hist, day) ==
    [hist EXCEPT !.m = [k \in {k \in DOMAIN hist.m :
                                  ~((day - k) * 24 + CronHour > StoreMaxDays * 24)}
                        |-> hist.m[k]]]

\* ------------------------------------------------- the organizer client

\* What the organizer's HTTP endpoint answers: the request may fail to be
\* sent; otherwise a status and a body, which decodes as JSON or does not.
Reply(sent, status, decodes, body) ==
    [sent |-> sent, status |-> status, decodes |-> decodes, body |-> body]

PlanReplies ==
    {Reply(FALSE, 0, FALSE, NilPlans),
     Reply(TRUE, 200, FALSE, NilPlans),
     Reply(TRUE, 500, TRUE, NilPlans)}
    \cup {Reply(TRUE, 200, TRUE, p) : p \in {PlanA, PlanErr}}

ExecuteReplies ==
    {Reply(FALSE, 0, FALSE, <<>>),
     Reply(TRUE, 200, TRUE, <<>>),
     Reply(TRUE, 400, TRUE, FailedMoves),
     Reply(TRUE, 500, FALSE, <<>>)}

\* A request sent to the organizer.
Call(endpoint, dir, files, metadata, plan, previous, hint) ==
    [endpoint |-> endpoint, dir |-> dir, files |-> files, metadata |-> metadata,
     plan |-> plan, previous_response |-> previous, user_hint |-> hint]

PlanRequest(dir, files, metadata) ==
    Call("/v1/plan", dir, files, metadata, <<>>, NilPlans, "")
ExecuteRequest(dir, plan) ==
    Call("/v1/execute", dir, <<>>, NoMetadata, plan, NilPlans, "")
ReplanRequest(files, metadata, previous, hint) ==
    Call("/v1/replan-with-hint", "", files, metadata, <<>>, previous, hint)

\* Mutant: a Plan that treats a response with its error field set as a failure.
ClientPlanRejectingErrorField(reply) ==
    IF ~reply.sent THEN [resp |-> NilPlans, err |-> TRUE]
    ELSE IF reply.status # 200 THEN [resp |-> NilPlans, err |-> TRUE]
    ELSE IF ~reply.decodes THEN [resp |-> NilPlans, err |-> TRUE]
    ELSE IF reply.body.error # "" THEN [resp |-> NilPlans, err |-> TRUE]
    ELSE [resp |-> reply.body, err |-> FALSE]

\* Client.Plan: (resp, err).
ClientPlan(reply) ==
    IF ~reply.sent THEN [resp |-> NilPlans, err |-> TRUE]
    ELSE IF reply.status # 200 THEN [resp |-> NilPlans, err |-> TRUE]
    ELSE IF ~reply.decodes THEN [resp |-> NilPlans, err |-> TRUE]
    ELSE [resp |-> reply.body, err |-> FALSE]

\* Client.ReplanWithHint: (resp, err).
ClientReplanWithHint(reply) ==
    IF ~reply.sent THEN [resp |-> NilPlans, err |-> TRUE]
    ELSE IF reply.status # 200 THEN [resp |-> NilPlans, err |-> TRUE]
    ELSE IF ~reply.decodes THEN [resp |-> NilPlans, err |-> TRUE]
    ELSE [resp |-> reply.body, err |-> FALSE]

\* Client.Execute: (success, failures, err).
ClientExecute(reply) ==
    IF ~reply.sent THEN [success |-> FALSE, failed |-> <<>>, err |-> TRUE]
    ELSE IF reply.status = 200 THEN [success |-> TRUE, failed |-> <<>>, err |-> FALSE]
    ELSE IF ~reply.decodes THEN [success |-> FALSE, failed |-> <<>>, err |-> TRUE]
    ELSE [success |-> FALSE, failed |-> reply.body, err |-> FALSE]

\* ------------------------------------------- the organize command handler

\* What a handler did: the row it holds at its end, whether it saved that row,
\* the HTTP answer, and the organizer calls it made.
Handled(row, saved, code, body, calls) ==
    [row |-> row, saved |-> saved, code |-> code, body |-> body, calls |-> calls]

\* Mutant: accept_plan that records a failed execution when the call itself failed.
handleAcceptPlanSavingOnError(id, row, reply) ==
    IF row.organize_plans.isNil
    THEN Handled(row, FALSE, 400, ErrorBody("No organize plan available"), {})
    ELSE LET req == ExecuteRequest(id, row.organize_plans.plan)
             r == ClientExecute(reply)
         IN  IF r.success
             THEN Handled([row EXCEPT !.organize_state = Organized], TRUE, 200,
                          Body("organization completed successfully", "", <<>>, NilPlans),
                          {req})
             ELSE Handled([row EXCEPT !.organize_state = ExecutePlanFailed], TRUE,
                          IF r.err THEN 500 ELSE 200,
                          Body("organization partially completed", "", r.failed, NilPlans),
                          {req})

\* Mutant: accept_plan that refuses a record which is already Organized.
handleAcceptPlanOnlyOnce(id, row, reply) ==
    IF row.organize_plans.isNil \/ row.organize_state = Organized
    THEN Handled(row, FALSE, 400, ErrorBody("No organize plan available"), {})
    ELSE LET req == ExecuteRequest(id, row.organize_plans.plan)
             r == ClientExecute(reply)
         IN  IF r.err
             THEN Handled(row, FALSE, 500, ErrorBody("execute failed"), {req})
             ELSE IF r.success
             THEN Handled([row EXCEPT !.organize_state = Organized], TRUE, 200,
                          Body("organization completed successfully", "", <<>>, NilPlans),
                          {req})
             ELSE Handled([row EXCEPT !.organize_state = ExecutePlanFailed], TRUE, 200,
                          Body("organization partially completed", "", r.failed, NilPlans),
                          {req})

handleAcceptPlan(id, row, reply) ==
    IF row.organize_plans.isNil
    THEN Handled(row, FALSE, 400, ErrorBody("No organize plan available"), {})
    ELSE LET req == ExecuteRequest(id, row.organize_plans.plan)
             r == ClientExecute(reply)
         IN  IF r.err
             THEN Handled(row, FALSE, 500, ErrorBody("execute failed"), {req})
             ELSE IF r.success
             THEN Handled([row EXCEPT !.organize_state = Organized], TRUE, 200,
                          Body("organization completed successfully", "", <<>>, NilPlans),
                          {req})
             ELSE Handled([row EXCEPT !.organize_state = ExecutePlanFailed], TRUE, 200,
                          Body("organization partially completed", "", r.failed, NilPlans),
                          {req})

\* Mutant: manual_organized that also drops the stored plan response.
handleManualOrganizedClearingPlans(id, row) ==
    Handled([row EXCEPT !.organize_state = Organized, !.organize_plans = NilPlans],
            TRUE, 200, Body("marked as manually organized", "", <<>>, NilPlans), {})

handleManualOrganized(id, row) ==
    Handled([row EXCEPT !.organize_state = Organized], TRUE, 200,
            Body("marked as manually organized", "", <<>>, NilPlans), {})

\* Mutant: the re_plan request with a hint that leaves the stored response out.
rePlanRequestWithoutPrevious(id, row, userHint) ==
    IF userHint # ""
    THEN ReplanRequest(row.file_list, row.metadata, NilPlans, userHint)
    ELSE PlanRequest(id, row.file_list, row.metadata)

\* The request handleRePlan sends, by the user_hint query parameter.
rePlanRequest(id, row, userHint) ==
    IF userHint # ""
    THEN ReplanRequest(row.file_list, row.metadata, row.organize_plans, userHint)
    ELSE PlanRequest(id, row.file_list, row.metadata)

\* Mutant: re_plan that puts the record back to Unplaned when the call failed.
handleRePlanResettingOnError(id, row, userHint, reply) ==
    LET req == rePlanRequest(id, row, userHint)
        r == IF userHint # "" THEN ClientReplanWithHint(reply) ELSE ClientPlan(reply)
    IN  IF r.err
        THEN Handled([row EXCEPT !.organize_state = Unplaned], TRUE, 500,
                     ErrorBody("plan failed"), {req})
        ELSE Handled([row EXCEPT !.organize_plans = r.resp, !.organize_state = Planed],
                     TRUE, 200,
                     Body("re_plan completed successfully", "", <<>>, r.resp), {req})

\* Mutant: re_plan that drops the stored plan response when the call failed.
handleRePlanDroppingPlansOnError(id, row, userHint, reply) ==
    LET req == rePlanRequest(id, row, userHint)
        r == IF userHint # "" THEN ClientReplanWithHint(reply) ELSE ClientPlan(reply)
    IN  IF r.err
        THEN Handled([row EXCEPT !.organize_state = CreatePlanFailed,
                                 !.organize_plans = NilPlans],
                     TRUE, 500, ErrorBody("plan failed"), {req})
        ELSE Handled([row EXCEPT !.organize_plans = r.resp, !.organize_state = Planed],
                     TRUE, 200,
                     Body("re_plan completed successfully", "", <<>>, r.resp), {req})

handleRePlan(id, row, userHint, reply) ==
    LET req == rePlanRequest(id, row, userHint)
        r == IF userHint # "" THEN ClientReplanWithHint(reply) ELSE ClientPlan(reply)
    IN  IF r.err
        THEN Handled([row EXCEPT !.organize_state = CreatePlanFailed], TRUE, 500,
                     ErrorBody("plan failed"), {req})
        ELSE Handled([row EXCEPT !.organize_plans = r.resp, !.organize_state = Planed],
                     TRUE, 200,
                     Body("re_plan completed successfully", "", <<>>, r.resp), {req})

\* The action parameter: the three commands, an unknown one, a missing one.
RequestActions == {"accept_plan", "manual_organized", "re_plan", "bogus", ""}
UserHints == {"", "prefer TV"}

\* The part of organizeDownload that follows the lookup of the row.
dispatchOrganize(id, row, action, userHint, reply) ==
    CASE action = "" ->
            Handled(row, FALSE, 400, ErrorBody("action is required"), {})
      [] action = "accept_plan" -> handleAcceptPlan(id, row, reply)
      [] action = "manual_organized" -> handleManualOrganized(id, row)
      [] action = "re_plan" -> handleRePlan(id, row, userHint, reply)
      [] OTHER ->
            Handled(row, FALSE, 400, ErrorBody("Invalid action"), {})

\* The replies that can matter to a request with this action.
RepliesFor(action) ==
    CASE action = "accept_plan" -> ExecuteReplies
      [] action = "re_plan" -> PlanReplies
      [] OTHER -> {Reply(FALSE, 0, FALSE, <<>>)}

HintsFor(action) == IF action = "re_plan" THEN UserHints ELSE {""}

\* ------------------------------------------------------- the Progress Pass

\* uint16(*t.PercentDone * 1000)
DownloadProgressOf(t) == (t.percent_done * 1000) \div PercentScale

\* The row updateDownloadProgress saves for an unfinished row whose torrent is t.
progressRow(row, t) ==
    [row EXCEPT !.download_progress = DownloadProgressOf(t),
                !.size = t.total_size,
                !.state = IF t.status = TorrentStatusSeed THEN DownloadSeeding ELSE @]

updateDownloadProgress(st, tor, d) ==
    LET statuses == GetUnfinishedDownloadStatusByDownloader(st, d)
    IN  [id \in DOMAIN st |->
            IF id \in statuses /\ id \in DOMAIN tor
            THEN progressRow(st[id], tor[id])
            ELSE st[id]]

\* The row copyFinishedDownloads saves after copyTorrentFiles returned true.
copiedRow(row, t) ==
    [row EXCEPT !.file_list = t.files, !.move_state = Moved]

\* The rows the copy step visits: finished, unmoved, torrent in the list.
copyCandidates(st, tor, d) ==
    GetFinishedUnmoveedDownloadStatusByDownloader(st, d) \cap DOMAIN tor

\* Mutant: a copy step that gives up on every row once one copy has failed.
copyFinishedDownloadsAllOrNothing(st, tor, d, copyOk) ==
    [id \in DOMAIN st |->
        IF id \in copyCandidates(st, tor, d)
           /\ \A other \in copyCandidates(st, tor, d) : copyOk[other]
        THEN copiedRow(st[id], tor[id])
        ELSE st[id]]

\* copyOk[id]: whether every file of the torrent could be opened, created and copied.
copyFinishedDownloads(st, tor, d, copyOk) ==
    [id \in DOMAIN st |->
        IF id \in copyCandidates(st, tor, d) /\ copyOk[id]
        THEN copiedRow(st[id], tor[id])
        ELSE st[id]]

\* Mutant: a plan step that leaves the row alone when the call failed.
plannedRowUntouchedOnError(row, reply) ==
    LET r == ClientPlan(reply)
    IN  IF r.err
        THEN row
        ELSE [row EXCEPT !.organize_plans = r.resp, !.organize_state = Planed]

\* The row createOrganizerPlan saves after the plan call answered `reply`.
plannedRow(row, reply) ==
    LET r == ClientPlan(reply)
    IN  IF r.err
        THEN [row EXCEPT !.organize_state = CreatePlanFailed]
        ELSE [row EXCEPT !.organize_plans = r.resp, !.organize_state = Planed]

\* Mutant: a plan step that also takes the rows whose plan creation failed.
planCandidatesRetryingFailed(st, d) ==
    GetMovedAndOrganizeStateDownloadStatusByDownloader(st, d, Unplaned)
        \cup GetMovedAndOrganizeStateDownloadStatusByDownloader(st, d, CreatePlanFailed)

planCandidates(st, d) ==
    GetMovedAndOrganizeStateDownloadStatusByDownloader(st, d, Unplaned)

createOrganizerPlan(st, d, replies) ==
    [id \in DOMAIN st |->
        IF id \in planCandidates(st, d)
        THEN plannedRow(st[id], replies[id])
        ELSE st[id]]

\* The plan requests createOrganizerPlan sends.
planCalls(st, d) ==
    {PlanRequest(id, st[id].file_list, st[id].metadata) : id \in planCandidates(st, d)}

\* SessionStats: the call fails (the zero value is then read), or a speed.
SessionStatsOutcomes ==
    {[err |-> TRUE, DownloadSpeed |-> 0],
     [err |-> FALSE, DownloadSpeed |-> 0],
     [err |-> FALSE, DownloadSpeed |-> BusySpeed],
     [err |-> FALSE, DownloadSpeed |-> 5 * 1000 * 1000]}

\* Mutant: a gate that closes above 5 MB/s only.
isBusyAboveFiveMB(stats) == stats.DownloadSpeed > 5 * 1000 * 1000

isBusy(stats) == stats.DownloadSpeed > BusySpeed

\* Mutant: a pass whose copy step selects its rows from the store as it was
\* before the update step.
progressPassOnSnapshot(st, tor, d, stats, copyOk, replies) ==
    LET s1 == updateDownloadProgress(st, tor, d)
        s2 == [id \in DOMAIN s1 |->
                  IF id \in copyCandidates(st, tor, d) /\ copyOk[id]
                  THEN copiedRow(s1[id], tor[id])
                  ELSE s1[id]]
    IN  IF isBusy(stats) THEN s1 ELSE createOrganizerPlan(s2, d, replies)

\* ProgressChecker after TorrentGetAll succeeded: the store it leaves. copyOk
\* and replies give, by record id, the outcome of the file copy and the
\* organizer's answer to the plan request.
progressPass(st, tor, d, stats, copyOk, replies) ==
    LET s1 == updateDownloadProgress(st, tor, d)
    IN  IF isBusy(stats)
        THEN s1
        ELSE createOrganizerPlan(copyFinishedDownloads(s1, tor, d, copyOk), d, replies)

\* The plan requests of that run: none when the daemon is busy.
progressCalls(st, tor, d, stats, copyOk) ==
    IF isBusy(stats)
    THEN {}
    ELSE planCalls(copyFinishedDownloads(updateDownloadProgress(st, tor, d), tor, d, copyOk), d)

\* One whole run of ProgressChecker for downloader d.
ProgressChecker(d) ==
    \E getAllOk \in BOOLEAN :
        IF ~getAllOk
        THEN /\ last' = Outcome("progress", d, 0, ErrorBody("get all failed"), {}, {}, FALSE, <<>>)
             /\ UNCHANGED <<store, daemon, today, seedRan, run>>
        ELSE LET tor == daemon[d]
                 s1 == updateDownloadProgress(store, tor, d)
             IN  \E stats \in SessionStatsOutcomes :
                    IF isBusy(stats)
                    THEN /\ store' = progressPass(store, tor, d, stats, <<>>, <<>>)
                         /\ last' = Outcome("progress", d, 0, ErrorBody("busy"),
                                            progressCalls(store, tor, d, stats, <<>>),
                                            {}, FALSE, <<>>)
                         /\ UNCHANGED <<daemon, today, seedRan, run>>
                    ELSE \E copyOk \in [copyCandidates(s1, tor, d) -> BOOLEAN] :
                            LET s2 == copyFinishedDownloads(s1, tor, d, copyOk)
                            IN  \E replies \in [planCandidates(s2, d) -> PlanReplies] :
                                   /\ store' = progressPass(store, tor, d, stats, copyOk, replies)
                                   /\ last' = Outcome("progress", d, 0, ErrorBody(""),
                                                      progressCalls(store, tor, d, stats, copyOk),
                                                      {}, FALSE, replies)
                                   /\ UNCHANGED <<daemon, today, seedRan, run>>

\* ------------------------------------------------- the Seeding Policy Pass

\* The orders in which a list of the elements of S can be walked.
RECURSIVE Orders(_)
Orders(S) ==
    IF S = {} THEN {<<>>}
    ELSE UNION {{<<x>> \o rest : rest \in Orders(S \ {x})} : x \in S}

\* The record stopTorrents creates for a seeding torrent the store has no row of.
synthesizedRow(d, t, day) ==
    DownloadStatus(d, DownloadSeeding, t.name, <<>>, NoMetadata,
                   AddToday(EmptyHistories, day, t.uploaded_ever))

\* The row stopTorrents saves for a seeding torrent that has a row with an
\* allocated history map.
sampledRow(row, t, day) ==
    [row EXCEPT !.upload_histories =
        AddToday(CleanupHistory(row.upload_histories, day), day, t.uploaded_ever)]

\* Whether stopTorrents schedules the torrent of a sampled row for stopping.
shouldStop(row, t, day) ==
    LET before == GetXDayBefore(row.upload_histories, day, IntervalInDays)
    IN  /\ before.ok
        /\ ~((t.uploaded_ever - before.n) > UploadAtLeastInMB * 1024 * 1024)

\* The loop of stopTorrents over the torrents in `order`, from the store st:
\* the store it leaves, the ids scheduled for stopping, and whether the
\* assignment to a nil upload_histories map panicked (which ends the loop).
RECURSIVE stopLoop(_, _, _, _, _, _)
stopLoop(st, tor, d, day, order, stopIDs) ==
    IF order = <<>> THEN [store |-> st, stopIDs |-> stopIDs, panicked |-> FALSE]
    ELSE LET hash == Head(order)
             t == tor[hash]
         IN  IF t.status # TorrentStatusSeed
             THEN stopLoop(st, tor, d, day, Tail(order), stopIDs)
             ELSE IF hash \notin DOMAIN st
             THEN stopLoop(SaveDownloadStatus(st, hash, synthesizedRow(d, t, day)),
                           tor, d, day, Tail(order), stopIDs)
             ELSE IF st[hash].upload_histories.isNil
             THEN [store |-> st, stopIDs |-> stopIDs, panicked |-> TRUE]
             ELSE LET row == sampledRow(st[hash], t, day)
                      st2 == SaveDownloadStatus(st, hash, row)
                  IN  stopLoop(st2, tor, d, day, Tail(order),
                               IF shouldStop(row, t, day)
                               THEN stopIDs \cup {hash} ELSE stopIDs)

\* A daemon RPC of a pass.
Rpc(method, ids) == [method |-> method, ids |-> ids]

\* Mutant: stopTorrents that marks the scheduled rows before it asks the daemon.
stopTorrentsStoringFirst(st, tor, d, day, order, stopOk) ==
    LET l == stopLoop(st, tor, d, day, order, {})
        marked == UpdateDownloadStateForStatuses(l.store, l.stopIDs, DownloadStopped)
    IN  IF l.panicked
        THEN [store |-> l.store, tor |-> tor, rpcs |-> {}, panicked |-> TRUE]
        ELSE IF l.stopIDs = {}
        THEN [store |-> l.store, tor |-> tor, rpcs |-> {}, panicked |-> FALSE]
        ELSE [store |-> marked,
              tor |-> [h \in DOMAIN tor |->
                          IF h \in l.stopIDs /\ stopOk
                          THEN [tor[h] EXCEPT !.status = TorrentStatusStopped]
                          ELSE tor[h]],
              rpcs |-> {Rpc("torrent-stop", l.stopIDs)}, panicked |-> FALSE]

\* stopTorrents: the store and the daemon's list it leaves, the RPCs it sent.
stopTorrents(st, tor, d, day, order, stopOk) ==
    LET l == stopLoop(st, tor, d, day, order, {})
    IN  IF l.panicked
        THEN [store |-> l.store, tor |-> tor, rpcs |-> {}, panicked |-> TRUE]
        ELSE IF l.stopIDs = {}
        THEN [store |-> l.store, tor |-> tor, rpcs |-> {}, panicked |-> FALSE]
        ELSE IF ~stopOk
        THEN [store |-> l.store, tor |-> tor,
              rpcs |-> {Rpc("torrent-stop", l.stopIDs)}, panicked |-> FALSE]
        ELSE [store |-> UpdateDownloadStateForStatuses(l.store, l.stopIDs, DownloadStopped),
              tor |-> [h \in DOMAIN tor |->
                          IF h \in l.stopIDs
                          THEN [tor[h] EXCEPT !.status = TorrentStatusStopped]
                          ELSE tor[h]],
              rpcs |-> {Rpc("torrent-stop", l.stopIDs)}, panicked |-> FALSE]

\* The rows removeTorrents retires: stopped, moved, torrent in the list fetched
\* at the start of the pass.
removeCandidates(st, torrentsByHash, d) ==
    GetStoppedMovedDownloadStatusByDownloader(st, d) \cap DOMAIN torrentsByHash

\* Mutant: removeTorrents that removes the torrents and leaves the rows alone.
removeTorrentsLeavingRecords(st, tor, torrentsByHash, d, removeOk) ==
    LET ids == removeCandidates(st, torrentsByHash, d)
    IN  IF ids = {}
        THEN [store |-> st, tor |-> tor, rpcs |-> {}]
        ELSE [store |-> st,
              tor |-> IF removeOk THEN [h \in DOMAIN tor \ ids |-> tor[h]] ELSE tor,
              rpcs |-> {Rpc("torrent-remove", ids)}]

\* removeTorrents: `tor` is the daemon's list now, torrentsByHash the list
\* fetched at the start of the pass.
removeTorrents(st, tor, torrentsByHash, d, removeOk) ==
    LET ids == removeCandidates(st, torrentsByHash, d)
    IN  IF ids = {}
        THEN [store |-> st, tor |-> tor, rpcs |-> {}]
        ELSE IF ~removeOk
        THEN [store |-> st, tor |-> tor, rpcs |-> {Rpc("torrent-remove", ids)}]
        ELSE [store |-> UpdateDownloadStateForStatuses(st, ids, DownloadDeleted),
              tor |-> [h \in DOMAIN tor \ ids |-> tor[h]],
              rpcs |-> {Rpc("torrent-remove", ids)}]

\* Mutant: the pass that retires before it stops.
seedingPassRetiringFirst(st, tor, d, day, order, stopOk, removeOk) ==
    LET removed == removeTorrents(st, tor, tor, d, removeOk)
        stopped == stopTorrents(removed.store, tor, d, day, order, stopOk)
    IN  IF stopped.panicked
        THEN [store |-> stopped.store, tor |-> tor, rpcs |-> {}, panicked |-> TRUE]
        ELSE [store |-> stopped.store,
              tor |-> [h \in DOMAIN removed.tor |-> stopped.tor[h]],
              rpcs |-> stopped.rpcs \cup removed.rpcs, panicked |-> FALSE]

\* checkDailySeeding after TorrentGetAll succeeded: stopTorrents, then
\* removeTorrents with the list fetched at the start; a panic in stopTorrents
\* ends the job where it stands.
seedingPass(st, tor, d, day, order, stopOk, removeOk) ==
    LET stopped == stopTorrents(st, tor, d, day, order, stopOk)
        removed == removeTorrents(stopped.store, stopped.tor, tor, d, removeOk)
    IN  IF stopped.panicked
        THEN [store |-> stopped.store, tor |-> tor, rpcs |-> {}, panicked |-> TRUE]
        ELSE [store |-> removed.store, tor |-> removed.tor,
              rpcs |-> stopped.rpcs \cup removed.rpcs, panicked |-> FALSE]

\* One whole run of checkDailySeeding for downloader d; the cron job fires it
\* once a day.
checkDailySeeding(d) ==
    /\ seedRan[d] < today
    /\ seedRan' = [seedRan EXCEPT ![d] = today]
    /\ UNCHANGED <<today, run>>
    /\ \E getAllOk \in BOOLEAN :
        IF ~getAllOk
        THEN /\ last' = Outcome("seeding", d, 0, ErrorBody("get all failed"), {}, {}, FALSE, <<>>)
             /\ UNCHANGED <<store, daemon>>
        ELSE \E order \in Orders(DOMAIN daemon[d]), stopOk \in BOOLEAN, removeOk \in BOOLEAN :
                LET r == seedingPass(store, daemon[d], d, today, order, stopOk, removeOk)
                IN  /\ store' = r.store
                    /\ daemon' = [daemon EXCEPT ![d] = r.tor]
                    /\ last' = Outcome("seeding", d, 0,
                                       ErrorBody(IF r.panicked THEN "panic" ELSE ""),
                                       {}, r.rpcs, r.panicked, <<>>)

\* ------------------------------------------------------------ registration

\* db.Create: an INSERT, refused when the primary key is already in the table.
Create(st, id, row) ==
    IF id \in DOMAIN st
    THEN [store |-> st, err |-> TRUE]
    ELSE [store |-> (id :> row) @@ st, err |-> FALSE]

\* DownloadTorrentFileFromURL: fetch the torrent file, compute its info-hash,
\* refuse a hash the table already holds, write the file to the watch directory.
\* Mutant: the download helper without its duplicate check.
DownloadTorrentFileWithoutDuplicateCheck(st, hash, fetchOk) ==
    IF ~fetchOk THEN "fetch error" ELSE "ok"

DownloadTorrentFileFromURL(st, hash, fetchOk) ==
    IF ~fetchOk THEN "fetch error"
    ELSE IF hash \in DOMAIN st THEN "duplicate download:"
    ELSE "ok"

\* The indexer's Download: the HTTP status of its error, or 200.
IndexerDownload(st, hash, apiOk, fetchOk) ==
    IF ~apiOk THEN 500
    ELSE LET err == DownloadTorrentFileFromURL(st, hash, fetchOk)
         IN  IF err = "duplicate download:" THEN 409
             ELSE IF err # "ok" THEN 500
             ELSE 200

\* indexerDownload for a resource whose torrent has info-hash `hash`, of an
\* indexer bound to downloader d: the store it leaves and the HTTP status.
indexerDownload(st, d, hash, detailOk, apiOk, fetchOk) ==
    IF ~detailOk THEN [store |-> st, code |-> 500]
    ELSE LET code == IndexerDownload(st, hash, apiOk, fetchOk)
         IN  IF code # 200 THEN [store |-> st, code |-> code]
             ELSE LET c == Create(st, hash, DownloadStatus(d, DownloadStarted, IndexerTitle,
                                                         IndexerFiles, IndexerMetadata,
                                                         NilHistories))
                  IN  IF c.err THEN [store |-> st, code |-> 500]
                      ELSE [store |-> c.store, code |-> 200]

\* The upstream calls of a registration: all succeed, or one of them fails.
UpstreamOutcomes ==
    {[detailOk |-> TRUE, apiOk |-> TRUE, fetchOk |-> TRUE],
     [detailOk |-> FALSE, apiOk |-> TRUE, fetchOk |-> TRUE],
     [detailOk |-> TRUE, apiOk |-> FALSE, fetchOk |-> TRUE],
     [detailOk |-> TRUE, apiOk |-> TRUE, fetchOk |-> FALSE]}

Register(d, hash) ==
    \E up \in UpstreamOutcomes :
        LET r == indexerDownload(store, d, hash, up.detailOk, up.apiOk, up.fetchOk)
        IN  /\ store' = r.store
            /\ last' = Outcome("register", hash, r.code,
                               ErrorBody(IF up.detailOk /\ up.apiOk /\ up.fetchOk
                                         THEN "" ELSE "upstream"),
                               {}, {}, FALSE, <<>>)
            /\ UNCHANGED <<daemon, today, seedRan, run>>

\* --------------------------------------------------------- organizeDownload

\* Mutant: organizeDownload that parses the action before it looks the row up.
organizeDownloadActionFirst(st, id, action, userHint, reply) ==
    IF action \notin {"accept_plan", "manual_organized", "re_plan"}
    THEN Handled(DownloadStatus("", DownloadStarted, "", <<>>, NoMetadata, NilHistories),
                 FALSE, 400, ErrorBody("Invalid action"), {})
    ELSE IF id \notin DOMAIN st
    THEN Handled(DownloadStatus("", DownloadStarted, "", <<>>, NoMetadata, NilHistories),
                 FALSE, 404, ErrorBody("Download not found"), {})
    ELSE dispatchOrganize(id, st[id], action, userHint, reply)

\* organizeDownload on the row read from st: 404 for an unknown id.
organizeDownload(st, id, action, userHint, reply) ==
    IF id \notin DOMAIN st
    THEN Handled(DownloadStatus("", DownloadStarted, "", <<>>, NoMetadata, NilHistories),
                 FALSE, 404, ErrorBody("Download not found"), {})
    ELSE dispatchOrganize(id, st[id], action, userHint, reply)

\* The request POST /download/{id}/organize?action=...&user_hint=..., answered
\* by the organizer with `reply` when the handler calls it.
Organize(id, action, userHint, reply) ==
    LET r == organizeDownload(store, id, action, userHint, reply)
        o == Outcome(IF action \in {"accept_plan", "manual_organized", "re_plan"}
                     THEN action ELSE "organize",
                     id, r.code, r.body, r.calls, {}, FALSE,
                     IF r.calls = {} THEN <<>> ELSE (id :> reply))
    IN  /\ store' = IF r.saved THEN SaveDownloadStatus(store, id, r.row) ELSE store
        /\ last' = [o EXCEPT !.hint = userHint]
        /\ UNCHANGED <<daemon, today, seedRan>>

\* One whole request POST /download/{id}/organize.
OrganizeDownload(id) ==
    \E action \in RequestActions :
        \E userHint \in HintsFor(action), reply \in RepliesFor(action) :
            /\ Organize(id, action, userHint, reply)
            /\ UNCHANGED run

\* ------------------------------------------------------- the environment

\* A torrent appears in the daemon's list: the daemon picked the torrent file
\* up from its watch directory, or the torrent was added to the daemon
\* directly. A torrent the engine has removed is not added again.
DaemonAdd(d, hash) ==
    /\ hash \notin DOMAIN daemon[d]
    /\ hash \in DOMAIN store => store[hash].state # DownloadDeleted
    /\ daemon' = [daemon EXCEPT ![d] = (hash :> Torrent(TorrentStatusDownload, 5005, 0)) @@ @]
    /\ UNCHANGED <<store, today, seedRan, last, run>>

\* A downloading torrent makes progress, and seeds when it is complete.
DaemonAdvance(d, hash) ==
    /\ hash \in DOMAIN daemon[d]
    /\ daemon[d][hash].status = TorrentStatusDownload
    /\ \E p \in {p \in PercentValues : p > daemon[d][hash].percent_done} :
          daemon' = [daemon EXCEPT ![d][hash] =
                        [@ EXCEPT !.percent_done = p,
                                  !.status = IF p = PercentScale
                                             THEN TorrentStatusSeed ELSE @]]
    /\ UNCHANGED <<store, today, seedRan, last, run>>

\* A seeding torrent uploads.
DaemonUpload(d, hash) ==
    /\ hash \in DOMAIN daemon[d]
    /\ daemon[d][hash].status = TorrentStatusSeed
    /\ \E u \in {u \in UploadedValues : u > daemon[d][hash].uploaded_ever} :
          daemon' = [daemon EXCEPT ![d][hash].uploaded_ever = u]
    /\ UNCHANGED <<store, today, seedRan, last, run>>

NextDay ==
    /\ today < MaxDay
    /\ today' = today + 1
    /\ UNCHANGED <<store, daemon, seedRan, last, run>>

\* ------------------------------------------------ operations in progress

\* A request to organizeDownload in progress: the row it read, and, once the
\* organizer has answered, what the handler is about to save and answer.
NoRow == DownloadStatus("", DownloadStarted, "", <<>>, NoMetadata, NilHistories)
NoRequest ==
    [phase |-> "none", action |-> "", id |-> "", row |-> NoRow,
     result |-> Handled(NoRow, FALSE, 0, ErrorBody(""), {})]

\* A run of ProgressChecker in progress: its position, the torrent list it
\* fetched, the rows its current loop got from the store and has not visited
\* yet, and the row its plan call has produced and not saved yet.
NoProgressRun == [pc |-> "idle", tor |-> <<>>, rows |-> <<>>, result |-> <<>>]

\* newest: the plan response the organizer produced last. unsaved: how many
\* plan responses have been received and not saved yet. race: two plan
\* responses for the record were unsaved at the same time.
NothingRunning ==
    [req |-> NoRequest, pp |-> NoProgressRun,
     newest |-> NilPlans, unsaved |-> 0, race |-> FALSE]

\* ------------------------------------------------------ the specification

Init ==
    /\ store = <<>>
    /\ daemon = [d \in Downloaders |-> <<>>]
    /\ today = 0
    /\ seedRan = [d \in Downloaders |-> -1]
    /\ last = NoOutcome
    /\ run = NothingRunning

Next ==
    \/ \E d \in Downloaders, hash \in Hashes : Register(d, hash)
    \/ \E id \in Hashes : OrganizeDownload(id)
    \/ \E d \in Downloaders : ProgressChecker(d)
    \/ \E d \in Downloaders : checkDailySeeding(d)
    \/ \E d \in Downloaders, hash \in Hashes : DaemonAdd(d, hash)
    \/ \E d \in Downloaders, hash \in Hashes : DaemonAdvance(d, hash)
    \/ \E d \in Downloaders, hash \in Hashes : DaemonUpload(d, hash)
    \/ NextDay

Spec == Init /\ [][Next]_vars

\* --------------------------------------------- interleaved executions
\* The HTTP handlers run on the server's goroutines, ProgressChecker on its
\* own goroutine and checkDailySeeding on the cron scheduler's: the steps below
\* are the store reads, organizer calls and store writes of organizeDownload
\* and of ProgressChecker, one at a time, in any interleaving.
\* The interleaved specification stays within one day: the daily seeding job
\* and the daemon's upload counter are left to Spec.

\* The actions organizeDownload dispatches on.
OrganizeCommands == {"accept_plan", "manual_organized", "re_plan"}

\* The organizer's answers in the interleaved specification.
PassPlanReplies == {Reply(FALSE, 0, FALSE, NilPlans), Reply(TRUE, 200, TRUE, PlanA)}
RePlanReplies == {Reply(FALSE, 0, FALSE, NilPlans), Reply(TRUE, 200, TRUE, PlanB)}
AcceptReplies == {Reply(TRUE, 200, TRUE, <<>>), Reply(TRUE, 400, TRUE, FailedMoves)}

ConcRepliesFor(action) ==
    CASE action = "accept_plan" -> AcceptReplies
      [] action = "re_plan" -> RePlanReplies
      [] OTHER -> {Reply(FALSE, 0, FALSE, <<>>)}

\* The observer's record of an operation of the interleaved specification.
ConcOutcome(op, id, code) ==
    [NoOutcome EXCEPT !.op = op, !.id = id, !.code = code]

\* A function without its value at x.
Without(f, x) == [y \in DOMAIN f \ {x} |-> f[y]]

\* The rows of the store with the given ids, as a query returns them.
Rows(st, ids) == [id \in ids |-> st[id]]

\* A plan response has been received and is not saved yet.
PlanReceived(r, resp) ==
    [r EXCEPT !.newest = resp,
              !.unsaved = @ + 1,
              !.race = @ \/ r.unsaved >= 1]

\* A received plan response has been saved.
PlanSaved(r) ==
    [r EXCEPT !.unsaved = @ - 1,
              !.race = @ /\ r.unsaved > 1]

\* organizeDownload reads the row (GetDownloadStatusByID).
ReqRead(id) ==
    /\ run.req.phase = "none"
    /\ id \in DOMAIN store
    /\ \E action \in OrganizeCommands :
          run' = [run EXCEPT !.req = [NoRequest EXCEPT !.phase = "read",
                                                        !.action = action,
                                                        !.id = id,
                                                        !.row = store[id]]]
    /\ UNCHANGED <<store, daemon, today, seedRan, last>>

\* The handler calls the organizer (manual_organized calls nothing) and holds
\* the row it is about to save.
ReqCall ==
    /\ run.req.phase = "read"
    /\ \E reply \in ConcRepliesFor(run.req.action) :
          LET r == dispatchOrganize(run.req.id, run.req.row, run.req.action, "", reply)
              got == run.req.action = "re_plan" /\ r.code = 200
              ran == IF got THEN PlanReceived(run, r.row.organize_plans) ELSE run
          IN  run' = [ran EXCEPT !.req.phase = "called", !.req.result = r]
    /\ UNCHANGED <<store, daemon, today, seedRan, last>>

\* The handler saves the row (SaveDownloadStatus) and answers.
ReqWrite ==
    /\ run.req.phase = "called"
    /\ LET r == run.req.result
           got == run.req.action = "re_plan" /\ r.code = 200
           ran == IF got THEN PlanSaved(run) ELSE run
       IN  /\ store' = IF r.saved THEN SaveDownloadStatus(store, run.req.id, r.row) ELSE store
           /\ last' = ConcOutcome(run.req.action, run.req.id, r.code)
           /\ run' = [ran EXCEPT !.req = NoRequest]
    /\ UNCHANGED <<daemon, today, seedRan>>

\* ProgressChecker fetches the torrent list; updateDownloadProgress queries
\* the unfinished rows.
PassStart(d) ==
    /\ run.pp.pc = "idle"
    /\ run' = [run EXCEPT !.pp = [pc |-> "update", tor |-> daemon[d],
                                  rows |-> Rows(store, GetUnfinishedDownloadStatusByDownloader(store, d)),
                                  result |-> <<>>]]
    /\ UNCHANGED <<store, daemon, today, seedRan, last>>

\* updateDownloadProgress visits one of the rows it queried.
PassUpdate(d) ==
    /\ run.pp.pc = "update"
    /\ \E id \in DOMAIN run.pp.rows :
          /\ store' = IF id \in DOMAIN run.pp.tor
                      THEN SaveDownloadStatus(store, id, progressRow(run.pp.rows[id], run.pp.tor[id]))
                      ELSE store
          /\ run' = [run EXCEPT !.pp.rows = Without(@, id)]
    /\ UNCHANGED <<daemon, today, seedRan, last>>

\* ProgressChecker reads the session statistics; when the daemon is not busy,
\* copyFinishedDownloads queries the finished and unmoved rows.
PassStats(d) ==
    /\ run.pp.pc = "update"
    /\ run.pp.rows = <<>>
    /\ \E stats \in SessionStatsOutcomes :
          IF isBusy(stats)
          THEN /\ run' = [run EXCEPT !.pp = NoProgressRun]
               /\ last' = ConcOutcome("progress", d, 0)
          ELSE /\ run' = [run EXCEPT !.pp.pc = "copy",
                                     !.pp.rows = Rows(store, copyCandidates(store, run.pp.tor, d))]
               /\ UNCHANGED last
    /\ UNCHANGED <<store, daemon, today, seedRan>>

\* copyFinishedDownloads copies the files of one of the rows it queried and,
\* when that succeeded, saves the row as Moved.
PassCopy(d) ==
    /\ run.pp.pc = "copy"
    /\ \E id \in DOMAIN run.pp.rows, copyOk \in BOOLEAN :
          /\ store' = IF copyOk
                      THEN SaveDownloadStatus(store, id, copiedRow(run.pp.rows[id], run.pp.tor[id]))
                      ELSE store
          /\ run' = [run EXCEPT !.pp.rows = Without(@, id)]
    /\ UNCHANGED <<daemon, today, seedRan, last>>

\* createOrganizerPlan queries the moved and unplanned rows.
PassPlanQuery(d) ==
    /\ run.pp.pc = "copy"
    /\ run.pp.rows = <<>>
    /\ run' = [run EXCEPT !.pp.pc = "plan",
                          !.pp.rows = Rows(store, planCandidates(store, d))]
    /\ UNCHANGED <<store, daemon, today, seedRan, last>>

\* createOrganizerPlan calls the organizer for one of the rows it queried.
PassPlanCall(d) ==
    /\ run.pp.pc = "plan"
    /\ run.pp.result = <<>>
    /\ \E id \in DOMAIN run.pp.rows, reply \in PassPlanReplies :
          LET row == plannedRow(run.pp.rows[id], reply)
              got == row.organize_state = Planed
              ran == IF got THEN PlanReceived(run, row.organize_plans) ELSE run
          IN  run' = [ran EXCEPT !.pp.result = (id :> row)]
    /\ UNCHANGED <<store, daemon, today, seedRan, last>>

\* createOrganizerPlan saves the row of the plan call.
PassPlanSave(d) ==
    /\ run.pp.pc = "plan"
    /\ run.pp.result # <<>>
    /\ \E id \in DOMAIN run.pp.result :
          LET row == run.pp.result[id]
              got == row.organize_state = Planed
              ran == IF got THEN PlanSaved(run) ELSE run
          IN  /\ store' = SaveDownloadStatus(store, id, row)
              /\ run' = [ran EXCEPT !.pp.result = <<>>, !.pp.rows = Without(@, id)]
    /\ UNCHANGED <<daemon, today, seedRan, last>>

\* ProgressChecker returns.
PassEnd(d) ==
    /\ run.pp.pc = "plan"
    /\ run.pp.rows = <<>>
    /\ run' = [run EXCEPT !.pp = NoProgressRun]
    /\ last' = ConcOutcome("progress", d, 0)
    /\ UNCHANGED <<store, daemon, today, seedRan>>

NextConc ==
    \/ \E d \in Downloaders, hash \in Hashes : Register(d, hash)
    \/ \E id \in Hashes : ReqRead(id)
    \/ ReqCall
    \/ ReqWrite
    \/ \E d \in Downloaders : PassStart(d)
    \/ \E d \in Downloaders : PassUpdate(d)
    \/ \E d \in Downloaders : PassStats(d)
    \/ \E d \in Downloaders : PassCopy(d)
    \/ \E d \in Downloaders : PassPlanQuery(d)
    \/ \E d \in Downloaders : PassPlanCall(d)
    \/ \E d \in Downloaders : PassPlanSave(d)
    \/ \E d \in Downloaders : PassEnd(d)
    \/ \E d \in Downloaders, hash \in Hashes : DaemonAdd(d, hash)
    \/ \E d \in Downloaders, hash \in Hashes : DaemonAdvance(d, hash)

SpecConc == Init /\ [][NextConc]_vars

\* ------------------------------------------------- requests and retries
\* The specification SpecRetry keeps, with every organize request, the row
\* the handler found and whether the request repeats the one before it: the
\* same command for the same record with the same hint, answered by the
\* organizer in the same way, with no other operation in between.

RequestLog(phase, action, id, row, result) ==
    [phase |-> phase, action |-> action, id |-> id, row |-> row, result |-> result]

OrganizeLogged(id) ==
    \E action \in RequestActions :
        \E userHint \in HintsFor(action), reply \in RepliesFor(action) :
            LET r == organizeDownload(store, id, action, userHint, reply)
                found == IF id \in DOMAIN store THEN store[id] ELSE NoRow
                again == /\ run.req.phase # "none"
                         /\ run.req.action = action
                         /\ last.id = id
                         /\ last.op = action
                         /\ last.hint = userHint
                         /\ (last.replies = <<>> \/ last.replies = (id :> reply))
            IN  /\ Organize(id, action, userHint, reply)
                /\ run' = [run EXCEPT !.req =
                              RequestLog(IF again THEN "retried" ELSE "answered",
                                         action, id, found, r)]

NextRetry ==
    \/ \E d \in Downloaders, hash \in Hashes : Register(d, hash)
    \/ \E id \in Hashes : OrganizeLogged(id)
    \/ \E d \in Downloaders : ProgressChecker(d)
    \/ \E d \in Downloaders, hash \in Hashes : DaemonAdd(d, hash)
    \/ \E d \in Downloaders, hash \in Hashes : DaemonAdvance(d, hash)

SpecRetry == Init /\ [][NextRetry]_vars

\* ------------------------------------------------------------ properties

\* ------------------------------------------- the seeding policy over weeks

\* The daily job followed over more days than StoreMaxDays, with uploads that
\* land on the policy's bound. Records enter the table as stopTorrents
\* creates them. The first MaxDay days are followed with every behaviour;
\* later days only while no torrent is seeding, so that the histories the
\* job has written until then age.
MaxLaterDay == 31

ThresholdUploads == UploadedValues \cup {UploadAtLeastInMB * MiB}

\* A seeding torrent uploads up to, or past, the bound of the policy.
DaemonUploadToBound(d, hash) ==
    /\ hash \in DOMAIN daemon[d]
    /\ daemon[d][hash].status = TorrentStatusSeed
    /\ \E u \in {u \in ThresholdUploads : u > daemon[d][hash].uploaded_ever} :
          daemon' = [daemon EXCEPT ![d][hash].uploaded_ever = u]
    /\ UNCHANGED <<store, today, seedRan, last, run>>

NothingSeeding ==
    \A d \in Downloaders : \A hash \in DOMAIN daemon[d] :
        daemon[d][hash].status # TorrentStatusSeed

LaterDay ==
    /\ today < MaxLaterDay
    /\ today >= MaxDay => NothingSeeding
    /\ today' = today + 1
    /\ UNCHANGED <<store, daemon, seedRan, last, run>>

NextDays ==
    \/ \E d \in Downloaders, hash \in Hashes : DaemonAdd(d, hash)
    \/ \E d \in Downloaders, hash \in Hashes : DaemonAdvance(d, hash)
    \/ \E d \in Downloaders, hash \in Hashes : DaemonUploadToBound(d, hash)
    \/ \E d \in Downloaders : checkDailySeeding(d)
    \/ LaterDay

SpecDays == Init /\ [][NextDays]_vars

\* A month of daily passes over a torrent that keeps seeding: the day ends
\* once the daily job has sampled every seeding torrent.
SampledDay ==
    /\ today < MaxLaterDay
    /\ \A d \in Downloaders : \A hash \in DOMAIN daemon[d] :
          daemon[d][hash].status = TorrentStatusSeed =>
              /\ hash \in DOMAIN store
              /\ today \in DOMAIN store[hash].upload_histories.m
    /\ today' = today + 1
    /\ UNCHANGED <<store, daemon, seedRan, last, run>>

NextMonth ==
    \/ \E d \in Downloaders, hash \in Hashes : DaemonAdd(d, hash)
    \/ \E d \in Downloaders, hash \in Hashes : DaemonAdvance(d, hash)
    \/ \E d \in Downloaders : checkDailySeeding(d)
    \/ SampledDay

SpecMonth == Init /\ [][NextMonth]_vars

\* ------------------------------------------ the Progress Pass over two rows

\* The Progress Pass of one downloader with two torrents in flight, so that
\* one pass visits a row after it has failed on, or finished, another.
\* Registration, the daemon and the pass only: no organize command and no
\* daily job. A hash can also be registered on a second downloader, whose
\* engine does not run here.
PassHashes == {"h1", "h2"}
OtherDownloader == "dl2"
BothDownloaders == Downloaders \cup {OtherDownloader}

NextPass ==
    \/ \E d \in BothDownloaders, hash \in PassHashes : Register(d, hash)
    \/ \E d \in Downloaders, hash \in PassHashes : DaemonAdd(d, hash)
    \/ \E d \in Downloaders, hash \in PassHashes : DaemonAdvance(d, hash)
    \/ \E d \in Downloaders : ProgressChecker(d)

SpecPass == Init /\ [][NextPass]_vars

\* ------------------------------------------------- two lifecycle engines

\* Two downloaders on one table: each has its daemon, its Progress Pass and
\* its daily job, and a torrent of the same info-hash can be in both daemons.
InitBoth ==
    /\ store = <<>>
    /\ daemon = [d \in BothDownloaders |-> <<>>]
    /\ today = 0
    /\ seedRan = [d \in BothDownloaders |-> -1]
    /\ last = NoOutcome
    /\ run = NothingRunning

NextBoth ==
    \/ \E d \in BothDownloaders, hash \in Hashes : Register(d, hash)
    \/ \E d \in BothDownloaders : ProgressChecker(d)
    \/ \E d \in BothDownloaders : checkDailySeeding(d)
    \/ \E d \in BothDownloaders, hash \in Hashes : DaemonAdd(d, hash)
    \/ \E d \in BothDownloaders, hash \in Hashes : DaemonAdvance(d, hash)
    \/ \E d \in BothDownloaders, hash \in Hashes : DaemonUpload(d, hash)
    \/ NextDay

SpecBoth == InitBoth /\ [][NextBoth]_vars

\* ------------------------------------------------- the organizer client

\* The client's three calls applied to what an organizer can answer: no
\* answer at all, or a status with a body that decodes or does not.
ClientStatuses == {200, 201, 400, 404, 500}
ClientPlanAnswers ==
    {Reply(FALSE, 0, FALSE, NilPlans)}
    \cup {Reply(TRUE, status, FALSE, NilPlans) : status \in ClientStatuses}
    \cup {Reply(TRUE, status, TRUE, p) :
             status \in ClientStatuses, p \in {PlanA, PlanB, PlanErr, PlanResponse(<<>>, "")}}

ClientExecuteAnswers ==
    {Reply(FALSE, 0, FALSE, <<>>)}
    \cup {Reply(TRUE, status, FALSE, <<>>) : status \in ClientStatuses}
    \cup {Reply(TRUE, status, TRUE, failed) :
             status \in ClientStatuses, failed \in {<<>>, FailedMoves, FailedMoves \o FailedMoves}}

\* Each call leaves what it returned (body: status "success" for true, the
\* failures, the response, error "error" for a non-nil error) next to what
\* the organizer answered (replies).
CallPlan ==
    /\ \E reply \in ClientPlanAnswers :
          LET r == ClientPlan(reply)
          IN  last' = Outcome("Client.Plan", "", 0,
                              Body("", IF r.err THEN "error" ELSE "", <<>>, r.resp),
                              {}, {}, FALSE, <<reply>>)
    /\ UNCHANGED <<store, daemon, today, seedRan, run>>

CallReplanWithHint ==
    /\ \E reply \in ClientPlanAnswers :
          LET r == ClientReplanWithHint(reply)
          IN  last' = Outcome("Client.ReplanWithHint", "", 0,
                              Body("", IF r.err THEN "error" ELSE "", <<>>, r.resp),
                              {}, {}, FALSE, <<reply>>)
    /\ UNCHANGED <<store, daemon, today, seedRan, run>>

CallExecute ==
    /\ \E reply \in ClientExecuteAnswers :
          LET r == ClientExecute(reply)
          IN  last' = Outcome("Client.Execute", "", 0,
                              Body(IF r.success THEN "success" ELSE "",
                                   IF r.err THEN "error" ELSE "", r.failed, NilPlans),
                              {}, {}, FALSE, <<reply>>)
    /\ UNCHANGED <<store, daemon, today, seedRan, run>>

NextClient == CallPlan \/ CallReplanWithHint \/ CallExecute

SpecClient == Init /\ [][NextClient]_vars

\* ------------------------------------------------------- the state counters

\* A COUNT(*) of the rows of downloader d among those that match the further
\* conditions of the query.
CountWhere(st, d, matching) ==
    Cardinality({id \in matching : st[id].downloader = d})

DownloaderStateCounts(downloading, planned, failed) ==
    [count_of_downloading |-> downloading,
     count_of_planned |-> planned,
     count_of_failed |-> failed]

\* Mutant: the counters without the downloader condition of their queries.
GetStateCountsOfAnyDownloader(st, d) ==
    LET all == [id \in DOMAIN st |-> [st[id] EXCEPT !.downloader = d]]
        isDownloading == {id \in DOMAIN st : /\ st[id].state = DownloadStarted
                                             /\ st[id].move_state # Moved}
        isPlanned == {id \in DOMAIN st : /\ st[id].move_state = Moved
                                         /\ st[id].organize_state = Planed}
        isFailed == {id \in DOMAIN st :
                        /\ st[id].move_state = Moved
                        /\ st[id].organize_state \in {CreatePlanFailed, ExecutePlanFailed}}
    IN  DownloaderStateCounts(CountWhere(all, d, isDownloading),
                              CountWhere(all, d, isPlanned),
                              CountWhere(all, d, isFailed))

\* GetDownloaderStateCounts: four counts, the two failed ones added.
GetDownloaderStateCounts(st, d) ==
    LET isDownloading == {id \in DOMAIN st : /\ st[id].state = DownloadStarted
                                             /\ st[id].move_state # Moved}
        isPlanned == {id \in DOMAIN st : /\ st[id].move_state = Moved
                                         /\ st[id].organize_state = Planed}
        isCreateFailed == {id \in DOMAIN st : /\ st[id].move_state = Moved
                                              /\ st[id].organize_state = CreatePlanFailed}
        isExecuteFailed == {id \in DOMAIN st : /\ st[id].move_state = Moved
                                               /\ st[id].organize_state = ExecutePlanFailed}
    IN  DownloaderStateCounts(CountWhere(st, d, isDownloading),
                              CountWhere(st, d, isPlanned),
                              CountWhere(st, d, isCreateFailed)
                                  + CountWhere(st, d, isExecuteFailed))

\* The table contents the counters are applied to: rows of two downloaders in
\* the combinations of the three state columns (Stopped counts as Seeding and
\* Deleted do: only Started is asked for); a third name has no row.
CountIds == {"h1", "h2"}
CountDownloaders == {"dl", "dl2"}
UnknownDownloader == "nobody"

CountedRow(d, state, move, organize) ==
    [DownloadStatus(d, state, IndexerTitle, <<>>, NoMetadata, NilHistories)
        EXCEPT !.move_state = move, !.organize_state = organize]

\* A row enters the table (db.Create, as the counters' test fills its table).
PutRow(id) ==
    /\ id \notin DOMAIN store
    /\ \E d \in CountDownloaders :
          \E state \in {DownloadStarted, DownloadSeeding, DownloadDeleted},
             move \in {UnMoved, Moved},
             organize \in {Unplaned, Planed, Organized, CreatePlanFailed, ExecutePlanFailed} :
              /\ store' = Create(store, id, CountedRow(d, state, move, organize)).store
              /\ UNCHANGED <<daemon, today, seedRan, last, run>>

CountStates(d) ==
    /\ last' = Outcome("counts", d, 0, GetDownloaderStateCounts(store, d), {}, {}, FALSE, <<>>)
    /\ UNCHANGED <<store, daemon, today, seedRan, run>>

NextCounts ==
    \/ \E id \in CountIds : PutRow(id)
    \/ \E d \in CountDownloaders \cup {UnknownDownloader} : CountStates(d)

SpecCounts == Init /\ [][NextCounts]_vars

\* ------------------------------------------------ the views of a downloader

\* getDownloaderStatuses: 404 for a downloader that is not configured, 400
\* for a missing or unknown state, else the counters and the rows of the
\* view. A list of rows is held as the bag of their ids; the failed view
\* appends the list of one query to the list of another.
getDownloaderStatuses(st, d, state) ==
    IF d \notin CountDownloaders
    THEN [code |-> 404, body |-> ErrorBody("Downloader not found")]
    ELSE IF state \notin {"downloading", "seeding", "stopped", "planned", "failed"}
    THEN [code |-> 400, body |-> ErrorBody("State parameter")]
    ELSE LET statuses ==
                 CASE state = "downloading" ->
                          SetToBag(GetUnfinishedDownloadStatusByDownloader(st, d))
                   [] state = "seeding" ->
                          SetToBag(GetDownloadStatusByDownloaderAndState(st, d, DownloadSeeding))
                   [] state = "stopped" ->
                          SetToBag(GetDownloadStatusByDownloaderAndState(st, d, DownloadStopped))
                   [] state = "planned" ->
                          SetToBag(GetMovedAndOrganizeStateDownloadStatusByDownloader(st, d, Planed))
                   [] state = "failed" ->
                          SetToBag(GetMovedAndOrganizeStateDownloadStatusByDownloader(
                                       st, d, CreatePlanFailed))
                          (+) SetToBag(GetMovedAndOrganizeStateDownloadStatusByDownloader(
                                           st, d, ExecutePlanFailed))
         IN  [code |-> 200,
              body |-> [state |-> GetDownloaderStateCounts(st, d), resources |-> statuses]]

\* GET /downloaders/:downloader?state=...; hint keeps the state parameter.
GetDownloaderStatuses(d) ==
    /\ \E state \in {"", "seeding", "planned", "failed"} :
          LET r == getDownloaderStatuses(store, d, state)
          IN  last' = [Outcome("statuses", d, r.code, r.body, {}, {}, FALSE, <<>>)
                          EXCEPT !.hint = state]
    /\ UNCHANGED <<store, daemon, today, seedRan, run>>

NextViews ==
    \/ \E id \in CountIds : PutRow(id)
    \/ \E d \in CountDownloaders \cup {UnknownDownloader} : GetDownloaderStatuses(d)

SpecViews == Init /\ [][NextViews]_vars

\* ------------------------------------------------ the program over time
\* RegisterCronjobs starts a goroutine that runs ProgressChecker every minute
\* for as long as the process lives, and the scheduler made by cron.New() runs
\* checkDailySeeding on a goroutine without a recover: a panic there ends the
\* process, and with it every pass and every handler. The daemon and the
\* calendar go on.

\* A run of ProgressChecker that gets the torrent list, finds the daemon idle
\* and whose copies all succeed, whatever the organizer answers.
ProgressCheckerUnhindered(d) ==
    /\ ~last.panicked
    /\ ProgressChecker(d)
    /\ last'.body.error = ""
    /\ \E replies \in [DOMAIN store -> PlanReplies] :
          store' = progressPass(store, daemon[d], d, [err |-> FALSE, DownloadSpeed |-> 0],
                                [id \in DOMAIN store |-> TRUE], replies)

NextLive ==
    \/ /\ ~last.panicked
       /\ \/ \E d \in Downloaders, hash \in Hashes : Register(d, hash)
          \/ \E id \in Hashes : OrganizeDownload(id)
          \/ \E d \in Downloaders : ProgressChecker(d)
          \/ \E d \in Downloaders : checkDailySeeding(d)
    \/ \E d \in Downloaders, hash \in Hashes : DaemonAdd(d, hash)
    \/ \E d \in Downloaders, hash \in Hashes : DaemonAdvance(d, hash)
    \/ \E d \in Downloaders, hash \in Hashes : DaemonUpload(d, hash)
    \/ NextDay

\* The minute loop keeps running the pass, and the daemon is idle and the
\* copies succeed again and again.
SpecLive ==
    /\ Init
    /\ [][NextLive]_vars
    /\ \A d \in Downloaders : WF_vars(ProgressCheckerUnhindered(d))

\* ------------------------------------------- registrations that overlap
\* The HTTP server runs each request on its own goroutine: between the
\* duplicate check inside indexer.Download and the INSERT of indexerDownload
\* another registration can run. One registration is taken in its two steps
\* and the others as a whole.

\* indexerDownload up to the return of indexer.Download: the details are
\* fetched, the torrent file is fetched, its hash is looked up in the table and
\* the file is written; an error is answered at once.
indexerDownloadChecked(d, hash) ==
    /\ run.req.phase = "none"
    /\ \E up \in UpstreamOutcomes :
          LET code == IF ~up.detailOk THEN 500
                      ELSE IndexerDownload(store, hash, up.apiOk, up.fetchOk)
          IN  IF code # 200
              THEN /\ last' = Outcome("register", hash, code, ErrorBody("refused"),
                                      {}, {}, FALSE, <<>>)
                   /\ UNCHANGED run
              ELSE /\ run' = [run EXCEPT !.req =
                                 RequestLog("checked", "register", hash,
                                            DownloadStatus(d, DownloadStarted, IndexerTitle,
                                                           IndexerFiles, IndexerMetadata,
                                                           NilHistories),
                                            NoRequest.result)]
                   /\ UNCHANGED last
    /\ UNCHANGED <<store, daemon, today, seedRan>>

\* The rest of indexerDownload: db.Create and the answer.
indexerDownloadCreate ==
    /\ run.req.phase = "checked"
    /\ run.req.action = "register"
    /\ LET c == Create(store, run.req.id, run.req.row)
       IN  /\ store' = c.store
           /\ last' = Outcome("register", run.req.id, IF c.err THEN 500 ELSE 200,
                              ErrorBody(IF c.err THEN "create" ELSE ""),
                              {}, {}, FALSE, <<>>)
    /\ run' = [run EXCEPT !.req = NoRequest]
    /\ UNCHANGED <<daemon, today, seedRan>>

NextReg ==
    \/ \E d \in BothDownloaders, hash \in PassHashes : Register(d, hash)
    \/ \E d \in BothDownloaders, hash \in PassHashes : indexerDownloadChecked(d, hash)
    \/ indexerDownloadCreate

SpecReg == Init /\ [][NextReg]_vars

\* The step is an operation `op` of the program.
Acted(op) == last'.tick # last.tick /\ last'.op = op

\* C1: after any sequence of registrations, passes and organize commands,
\* every record with move_state = Moved has state Seeding, Stopped or Deleted.
MovedImpliesSeeding ==
    \A id \in DOMAIN store :
        store[id].move_state = Moved => store[id].state >= DownloadSeeding

\* A Progress Pass has copied a finished record.
MovedWitness ==
    /\ last.op = "progress"
    /\ \E id \in DOMAIN store :
          store[id].move_state = Moved /\ store[id].state = DownloadSeeding

\* C2 as stated: every record whose organize_state is Planed, Organized,
\* CreatePlanFailed or ExecutePlanFailed has move_state = Moved.
OrganizeStateImpliesMoved ==
    \A id \in DOMAIN store :
        store[id].organize_state \in {Planed, Organized, CreatePlanFailed, ExecutePlanFailed}
            => store[id].move_state = Moved

\* C2 as amended: a record that is not Moved leaves Unplaned only through an
\* organize command of the operator issued on that record; the passes take a
\* record out of Unplaned only when it is Moved.
UnmovedLeavesUnplanedOnlyByCommand ==
    [][\A id \in DOMAIN store :
          (/\ store[id].organize_state = Unplaned
           /\ store'[id].organize_state # Unplaned
           /\ store'[id].move_state # Moved)
          => (last'.tick # last.tick /\ last'.op \in OrganizeCommands /\ last'.id = id)]_vars

\* A Progress Pass has asked for the plan of a Moved record and stored the outcome.
PassPlannedWitness ==
    /\ last.op = "progress"
    /\ \E id \in DOMAIN last.replies :
          /\ store[id].move_state = Moved
          /\ store[id].organize_state \in {Planed, CreatePlanFailed}

\* C3: once a record has state = Deleted, no later operation changes any
\* field of it.
DeletedIsTerminal ==
    [][\A id \in DOMAIN store :
          store[id].state = DownloadDeleted => store'[id] = store[id]]_vars

\* The upstream calls of the last registration all succeeded.
UpstreamOk(o) == o.body.error = ""

\* C7: registering a hash that already has a record fails (409 once the
\* torrent file was fetched), creates no record and leaves the existing one
\* unchanged; the first registration of a hash returns 200 and creates a
\* record in Started/UnMoved/Unplaned.
RegistrationOutcome ==
    [][Acted("register") =>
          LET id == last'.id
          IN  IF id \in DOMAIN store
              THEN /\ last'.code # 200
                   /\ UpstreamOk(last') => last'.code = 409
                   /\ store' = store
              ELSE /\ UpstreamOk(last') <=> last'.code = 200
                   /\ last'.code # 409
                   /\ last'.code # 200 => store' = store
                   /\ last'.code = 200 =>
                        /\ DOMAIN store' = DOMAIN store \cup {id}
                        /\ \A other \in DOMAIN store : store'[other] = store[other]
                        /\ store'[id].state = DownloadStarted
                        /\ store'[id].move_state = UnMoved
                        /\ store'[id].organize_state = Unplaned]_vars

\* A registration of a hash that has a record was refused.
DuplicateRefusedWitness ==
    last.op = "register" /\ last.code = 409 /\ last.id \in DOMAIN store

\* How the organizer answered an execute request.
ExecuteTransportError(reply) == ~reply.sent \/ (reply.status # 200 /\ ~reply.decodes)
ExecuteTotalSuccess(reply) == reply.sent /\ reply.status = 200
ExecutePartialFailure(reply) == reply.sent /\ reply.status # 200 /\ reply.decodes

\* C8: accept_plan on a record with a stored plan response: a transport or
\* decoding failure of execute gives 500 and leaves the record unchanged; total
\* success sets organize_state = Organized; partial failure sets
\* ExecutePlanFailed and returns the failure list; no other field changes.
AcceptPlanOutcome ==
    [][(/\ Acted("accept_plan")
        /\ last'.id \in DOMAIN store
        /\ ~store[last'.id].organize_plans.isNil) =>
          LET id == last'.id
              reply == last'.replies[id]
          IN  /\ ExecuteTransportError(reply) =>
                    last'.code = 500 /\ store' = store
              /\ ExecuteTotalSuccess(reply) =>
                    /\ last'.code = 200
                    /\ store' = [store EXCEPT ![id].organize_state = Organized]
              /\ ExecutePartialFailure(reply) =>
                    /\ last'.code = 200
                    /\ last'.body.failed = reply.body
                    /\ store' = [store EXCEPT ![id].organize_state = ExecutePlanFailed]]_vars

\* accept_plan has met a partial failure.
AcceptPlanPartialWitness ==
    /\ last.op = "accept_plan"
    /\ last.code = 200
    /\ last.body.failed # <<>>
    /\ store[last.id].organize_state = ExecutePlanFailed

\* C9: for a record whose organize_plans is absent or has an empty plan list,
\* accept_plan returns 400, sends no execute request and changes nothing.
AcceptPlanNeedsPlan ==
    [][(/\ Acted("accept_plan")
        /\ last'.id \in DOMAIN store
        /\ (store[last'.id].organize_plans.isNil
            \/ store[last'.id].organize_plans.plan = <<>>)) =>
          (last'.code = 400 /\ last'.calls = {} /\ store' = store)]_vars

\* The pairs of C10's list of transitions.
ListedTransition(a, b) ==
    \/ a = Unplaned /\ b \in {Planed, CreatePlanFailed}
    \/ a = Planed /\ b \in {Organized, ExecutePlanFailed}
    \/ a \in {Organized, CreatePlanFailed, ExecutePlanFailed} /\ b = Planed
    \/ b = Organized

\* C10 as stated: every change of organize_state is a listed transition, and
\* accept_plan changes organize_state only of a record that is Planed.
OnlyListedTransitions ==
    [][\A id \in DOMAIN store :
          store'[id].organize_state # store[id].organize_state =>
             /\ ListedTransition(store[id].organize_state, store'[id].organize_state)
             /\ last'.op = "accept_plan" => store[id].organize_state = Planed]_vars

\* C10 as amended: organize_state changes only by the plan step of a Progress
\* Pass (Unplaned to Planed or CreatePlanFailed, the record Moved and not
\* Deleted), by re_plan (any state to Planed or CreatePlanFailed), by
\* accept_plan (any state of a record with a stored plan response to
\* Organized or ExecutePlanFailed) and by manual_organized (any state to
\* Organized); it never returns to Unplaned.
OrganizeTransitions ==
    [][\A id \in DOMAIN store :
          store'[id].organize_state # store[id].organize_state =>
             LET a == store[id].organize_state
                 b == store'[id].organize_state
             IN  /\ last'.tick # last.tick
                 /\ b # Unplaned
                 /\ \/ /\ last'.op = "progress"
                       /\ a = Unplaned /\ b \in {Planed, CreatePlanFailed}
                       /\ store[id].move_state = Moved \/ store'[id].move_state = Moved
                       /\ store[id].state # DownloadDeleted
                    \/ /\ last'.op = "re_plan" /\ last'.id = id
                       /\ b \in {Planed, CreatePlanFailed}
                    \/ /\ last'.op = "accept_plan" /\ last'.id = id
                       /\ b \in {Organized, ExecutePlanFailed}
                       /\ ~store[id].organize_plans.isNil
                    \/ /\ last'.op = "manual_organized" /\ last'.id = id
                       /\ b = Organized]_vars

\* re_plan has failed on a record that holds an earlier plan response.
RePlanFailedWitness ==
    /\ last.op = "re_plan"
    /\ last.code = 500
    /\ store[last.id].organize_state = CreatePlanFailed
    /\ ~store[last.id].organize_plans.isNil

\* C4: in every interleaving of the passes and the organize handlers, every
\* store write leaves a record's state at or above its previous value
\* (Started, Seeding, Stopped, Deleted in this order).
StateNeverRegresses ==
    [][\A id \in DOMAIN store : store'[id].state >= store[id].state]_vars

\* C5: in every interleaving, once a write has stored move_state = Moved no
\* later write stores UnMoved for that record.
MovedNeverReverts ==
    [][\A id \in DOMAIN store :
          store[id].move_state = Moved => store'[id].move_state = Moved]_vars

\* C6: when a re_plan and a plan request of a Progress Pass for the same
\* record are both answered before either is saved, then once both are saved
\* the record is Planed and holds the plan response that was produced last.
NewerPlanWins ==
    [][(run.race /\ run.unsaved = 1 /\ run'.unsaved = 0) =>
          \A id \in DOMAIN store' :
              /\ store'[id].organize_state = Planed
              /\ store'[id].organize_plans = run.newest]_vars

\* The organizer call of a re_plan failed: the request could not be sent, the
\* status was not 200, or the body did not decode.
RePlanCallFailed(reply) == ~reply.sent \/ reply.status # 200 \/ ~reply.decodes

\* C11: re_plan whose organizer call fails sets organize_state =
\* CreatePlanFailed, keeps the stored organize_plans (and every other field)
\* and answers 500; re_plan whose call succeeds replaces organize_plans by the
\* new response, sets organize_state = Planed from whatever organize_state the
\* record was in, and answers 200 with the plan.
RePlanOutcome ==
    [][\A id \in DOMAIN store :
          (Acted("re_plan") /\ last'.id = id) =>
              LET reply == last'.replies[id]
              IN  IF RePlanCallFailed(reply)
                  THEN /\ last'.code = 500
                       /\ store' = [store EXCEPT ![id].organize_state = CreatePlanFailed]
                  ELSE /\ last'.code = 200
                       /\ last'.body.plan = reply.body
                       /\ store' = [store EXCEPT ![id].organize_plans = reply.body,
                                                 ![id].organize_state = Planed]]_vars

\* A successful re_plan of a record that was Organized and held another plan
\* response.
RePlanReplacedWitness ==
    /\ last.op = "re_plan"
    /\ last.code = 200
    /\ run.req.action = "re_plan"
    /\ run.req.row.organize_state = Organized
    /\ ~run.req.row.organize_plans.isNil
    /\ run.req.row.organize_plans # store[last.id].organize_plans
    /\ store[last.id].organize_state = Planed

\* C12: re_plan with an empty user_hint sends exactly one request, the plan
\* request {dir = id, files, metadata}; with a non-empty user_hint it sends
\* exactly one request, replan-with-hint {files, metadata, previous_response =
\* the stored organize_plans, user_hint}.
RePlanEndpoint ==
    [][\A id \in DOMAIN store :
          (Acted("re_plan") /\ last'.id = id) =>
              last'.calls =
                  {IF last'.hint = ""
                   THEN [endpoint |-> "/v1/plan", dir |-> id,
                         files |-> store[id].file_list, metadata |-> store[id].metadata,
                         plan |-> <<>>, previous_response |-> NilPlans, user_hint |-> ""]
                   ELSE [endpoint |-> "/v1/replan-with-hint", dir |-> "",
                         files |-> store[id].file_list, metadata |-> store[id].metadata,
                         plan |-> <<>>, previous_response |-> store[id].organize_plans,
                         user_hint |-> last'.hint]}]_vars

\* A re_plan with a hint whose request carried a stored plan response.
RePlanWithHintWitness ==
    /\ last.op = "re_plan"
    /\ last.hint # ""
    /\ \E c \in last.calls :
          /\ c.endpoint = "/v1/replan-with-hint"
          /\ c.user_hint = last.hint
          /\ ~c.previous_response.isNil

\* C13: manual_organized sets organize_state = Organized from every
\* organize_state, sends nothing to the organizer, answers 200 and changes no
\* other field of the record.
ManualOrganizedOutcome ==
    [][\A id \in DOMAIN store :
          (Acted("manual_organized") /\ last'.id = id) =>
              /\ last'.code = 200
              /\ last'.calls = {}
              /\ store' = [store EXCEPT ![id].organize_state = Organized]]_vars

\* manual_organized on a record that was ExecutePlanFailed.
ManualAfterFailedExecuteWitness ==
    /\ last.op = "manual_organized"
    /\ run.req.action = "manual_organized"
    /\ run.req.row.organize_state = ExecutePlanFailed
    /\ store[last.id].organize_state = Organized
    /\ store[last.id].organize_plans = run.req.row.organize_plans

\* C18: an organize command repeated on the same record, with the same hint
\* and the organizer answering the same way, leaves organize_state as the
\* first invocation left it and is answered like the first; manual_organized
\* repeated changes nothing in the store.
RetrySameOutcome ==
    [][(/\ \E op \in OrganizeCommands : Acted(op)
        /\ run'.req.phase = "retried"
        /\ last'.id \in DOMAIN store) =>
            /\ last'.code = last.code
            /\ last'.body = last.body
            /\ store'[last'.id].organize_state = store[last'.id].organize_state
            /\ last'.op = "manual_organized" => store' = store]_vars

\* accept_plan repeated on a record the first invocation made Organized.
AcceptPlanRetriedWitness ==
    /\ run.req.phase = "retried"
    /\ last.op = "accept_plan"
    /\ last.code = 200
    /\ run.req.row.organize_state = Organized
    /\ store[last.id].organize_state = Organized

\* The ids a pass named in an RPC of the given method.
RpcIds(o, method) == UNION {r.ids : r \in {x \in o.rpcs : x.method = method}}

PassesReturnCleanly == ~last.panicked

\* C17: from every store the program reaches, a Progress Pass run a second time
\* with the same torrent list, session statistics, copy outcomes and organizer
\* replies leaves the store of the first run; and a Seeding Policy Pass that
\* returned, run a second time on the same day with the same RPC outcomes,
\* against the torrent list of the first run or the list the first run left,
\* returns and leaves the store of the first run.
ProgressPassTwice(d) ==
    \A stats \in SessionStatsOutcomes :
        \A copyOk \in [Hashes -> BOOLEAN], replies \in [Hashes -> PlanReplies] :
            LET once == progressPass(store, daemon[d], d, stats, copyOk, replies)
            IN  progressPass(once, daemon[d], d, stats, copyOk, replies) = once

SeedingPassTwice(d) ==
    \A order \in Orders(DOMAIN daemon[d]) :
        \A stopOk \in BOOLEAN, removeOk \in BOOLEAN :
            LET once == seedingPass(store, daemon[d], d, today, order, stopOk, removeOk)
                same == seedingPass(once.store, daemon[d], d, today, order, stopOk, removeOk)
            IN  ~once.panicked =>
                    /\ ~same.panicked
                    /\ same.store = once.store
                    /\ \A after \in Orders(DOMAIN once.tor) :
                          LET left == seedingPass(once.store, once.tor, d, today, after, stopOk, removeOk)
                          IN  ~left.panicked /\ left.store = once.store

RowsOf(st, d) == {id \in DOMAIN st : st[id].downloader = d}

\* C20: the counters of a downloader are the numbers of its records that are
\* Started and not Moved, that are Moved and Planed, and that are Moved with
\* a failed plan creation or execution; they are the counters of the table
\* without the rows of every other downloader, and a downloader without a
\* record gets three zeros.
CountersMatchPredicates ==
    [][Acted("counts") =>
         LET d == last'.id
             own == RowsOf(store, d)
             onlyOwn == [id \in own |-> store[id]]
         IN  /\ last'.body.count_of_downloading =
                    Cardinality({id \in own : /\ store[id].state = DownloadStarted
                                              /\ store[id].move_state # Moved})
             /\ last'.body.count_of_planned =
                    Cardinality({id \in own : /\ store[id].move_state = Moved
                                              /\ store[id].organize_state = Planed})
             /\ last'.body.count_of_failed =
                    Cardinality({id \in own :
                        /\ store[id].move_state = Moved
                        /\ store[id].organize_state \in {CreatePlanFailed, ExecutePlanFailed}})
             /\ last'.body = GetDownloaderStateCounts(onlyOwn, d)
             /\ own = {} => last'.body = DownloaderStateCounts(0, 0, 0)]_vars

\* The counters of one downloader were taken while the other had a record
\* that is planned and this one had a failed one.
CountedBesideOthersWitness ==
    /\ last.op = "counts"
    /\ last.id \in CountDownloaders
    /\ last.body.count_of_failed > 0
    /\ \E id \in DOMAIN store :
          /\ store[id].downloader \in CountDownloaders \ {last.id}
          /\ store[id].move_state = Moved
          /\ store[id].organize_state = Planed

\* C14: in a Seeding Policy Pass that fetched the torrent list and returned,
\* a torrent with status seeding whose record exists is named in the stop
\* request exactly when the record has a sample for the day IntervalInDays
\* ago and today's uploaded_ever exceeds that sample by strictly less than
\* UploadAtLeastInMB x 1024 x 1024 bytes.
StopsExactlyBelowBound ==
    [][(Acted("seeding") /\ ~last'.panicked /\ last'.body.error = "") =>
         \A hash \in DOMAIN daemon[last'.id] :
             (/\ daemon[last'.id][hash].status = TorrentStatusSeed
              /\ hash \in DOMAIN store
              /\ ~store[hash].upload_histories.isNil) =>
                 LET samples == store[hash].upload_histories.m
                     uploaded == daemon[last'.id][hash].uploaded_ever
                 IN  hash \in RpcIds(last', "torrent-stop") <=>
                         /\ (today - IntervalInDays) \in DOMAIN samples
                         /\ uploaded - samples[today - IntervalInDays]
                                < UploadAtLeastInMB * 1024 * 1024]_vars

\* C16: the upload_histories of every record has at most StoreMaxDays keys,
\* each a day from today - StoreMaxDays to today.
HistoriesWithinWindow ==
    \A id \in DOMAIN store :
        LET samples == store[id].upload_histories.m
        IN  /\ Cardinality(DOMAIN samples) <= StoreMaxDays
            /\ \A day \in DOMAIN samples : today - StoreMaxDays <= day /\ day <= today

\* C24: from every store the program reaches, a Progress Pass that reads a
\* session download speed above 2 MB/s leaves the store its progress-update
\* step leaves, sends no plan request, and so leaves move_state,
\* organize_state, file_list and organize_plans of every record as they were,
\* whatever the copies and the organizer would have answered.
BusyGate ==
    \A d \in Downloaders : \A stats \in SessionStatsOutcomes :
        stats.DownloadSpeed > 2 * 1000 * 1000 =>
            \A copyOk \in [PassHashes -> BOOLEAN], replies \in [PassHashes -> PlanReplies] :
                LET after == progressPass(store, daemon[d], d, stats, copyOk, replies)
                IN  /\ after = updateDownloadProgress(store, daemon[d], d)
                    /\ progressCalls(store, daemon[d], d, stats, copyOk) = {}
                    /\ \A id \in DOMAIN store :
                          /\ after[id].move_state = store[id].move_state
                          /\ after[id].organize_state = store[id].organize_state
                          /\ after[id].file_list = store[id].file_list
                          /\ after[id].organize_plans = store[id].organize_plans

\* A busy pass has marked a finished download Seeding and left it unmoved.
BusyPassWitness ==
    /\ last.op = "progress"
    /\ last.body.error = "busy"
    /\ last.calls = {}
    /\ \E id \in DOMAIN store :
          /\ store[id].downloader = last.id
          /\ id \in DOMAIN daemon[last.id]
          /\ store[id].state = DownloadSeeding
          /\ store[id].download_progress > 0
          /\ store[id].move_state = UnMoved

\* C25: from every store the program reaches, a Progress Pass whose
\* session_stats call fails sends no plan request and changes no record's
\* move_state or organize_state.
SessionStatsFailureEndsPass ==
    \A d \in Downloaders : \A stats \in SessionStatsOutcomes :
        stats.err =>
            \A copyOk \in [PassHashes -> BOOLEAN], replies \in [PassHashes -> PlanReplies] :
                LET after == progressPass(store, daemon[d], d, stats, copyOk, replies)
                IN  /\ progressCalls(store, daemon[d], d, stats, copyOk) = {}
                    /\ \A id \in DOMAIN store :
                          /\ after[id].move_state = store[id].move_state
                          /\ after[id].organize_state = store[id].organize_state

\* C26: from every store the program reaches, the progress-update step of a
\* downloader rewrites exactly its Started records whose hash is in the
\* torrent list: download_progress and size from the torrent, state Seeding
\* if and only if the torrent's status is seeding, every other field as it
\* was; every other record is left as it was.
ProgressUpdateFrame ==
    \A d \in Downloaders :
        LET tor == daemon[d]
            after == updateDownloadProgress(store, tor, d)
        IN  /\ DOMAIN after = DOMAIN store
            /\ \A id \in DOMAIN store :
                  IF /\ store[id].downloader = d
                     /\ store[id].state = DownloadStarted
                     /\ id \in DOMAIN tor
                  THEN /\ after[id] = [store[id] EXCEPT
                                          !.download_progress = after[id].download_progress,
                                          !.size = after[id].size,
                                          !.state = after[id].state]
                       /\ after[id].download_progress = (tor[id].percent_done * 1000) \div PercentScale
                       /\ after[id].size = tor[id].total_size
                       /\ after[id].state = DownloadSeeding <=> tor[id].status = TorrentStatusSeed
                       /\ after[id].state \in {DownloadStarted, DownloadSeeding}
                  ELSE after[id] = store[id]

\* A pass has updated a record of its downloader while a Started record of
\* the other downloader has its torrent in this daemon's list, and a Started
\* record of this downloader has none.
ProgressUpdateWitness ==
    /\ last.op = "progress"
    /\ last.body.error # "get all failed"
    /\ \E id \in DOMAIN store :
          /\ store[id].downloader = OtherDownloader
          /\ store[id].state = DownloadStarted
          /\ id \in DOMAIN daemon[last.id]
          /\ daemon[last.id][id].status = TorrentStatusSeed
    /\ \E id \in DOMAIN store :
          /\ store[id].downloader = last.id
          /\ store[id].state = DownloadSeeding
          /\ store[id].size = TotalSize

\* C27: from every store the program reaches, in a Progress Pass that is not
\* busy, a finished, unmoved record of the downloader whose torrent is in the
\* list and whose copy fails is left by the copy step as it was (move_state
\* UnMoved, file_list and organize_state unchanged) and is a copy candidate
\* again after the pass, while every such record whose copy succeeds gets
\* the torrent's file names as file_list and move_state Moved, whatever the
\* copies of the other records did; no other record is written by the step.
CopyFailureIsolated ==
    \A d \in Downloaders : \A stats \in {x \in SessionStatsOutcomes : ~isBusy(x)} :
        \A copyOk \in [PassHashes -> BOOLEAN], replies \in [PassHashes -> PlanReplies] :
            LET tor == daemon[d]
                updated == updateDownloadProgress(store, tor, d)
                copied == copyFinishedDownloads(updated, tor, d, copyOk)
                after == progressPass(store, tor, d, stats, copyOk, replies)
            IN  \A id \in DOMAIN store :
                    IF /\ updated[id].downloader = d
                       /\ updated[id].state >= DownloadSeeding
                       /\ updated[id].move_state = UnMoved
                       /\ id \in DOMAIN tor
                    THEN IF copyOk[id]
                         THEN /\ copied[id] = [updated[id] EXCEPT !.file_list = tor[id].files,
                                                                  !.move_state = Moved]
                              /\ after[id].move_state = Moved
                              /\ after[id].file_list = tor[id].files
                         ELSE /\ copied[id] = updated[id]
                              /\ after[id] = updated[id]
                              /\ after[id].move_state = UnMoved
                              /\ id \in copyCandidates(after, tor, d)
                    ELSE copied[id] = updated[id]

\* One pass has copied one finished record and failed to copy another, which
\* is still finished, unmoved and unplanned with the file list it had.
CopyFailedBesideCopiedWitness ==
    /\ last.op = "progress"
    /\ last.body.error = ""
    /\ \E moved \in DOMAIN last.replies : \E kept \in DOMAIN store \ {moved} :
          /\ store[moved].move_state = Moved
          /\ store[moved].file_list = DaemonFiles
          /\ store[kept].downloader = last.id
          /\ kept \in DOMAIN daemon[last.id]
          /\ store[kept].state = DownloadSeeding
          /\ store[kept].move_state = UnMoved
          /\ store[kept].organize_state = Unplaned
          /\ store[kept].file_list = IndexerFiles

\* C28: from every store the program reaches, the plan step of a Progress
\* Pass that is not busy sends one plan request {dir = id, files = file_list,
\* metadata} for each record of the downloader that is Moved, Unplaned and
\* not Deleted, and no other request; a record whose request is answered
\* with 200 and a response gets that response as organize_plans and
\* organize_state Planed, also when the response has an error and no plan.
PlanStepCallsAndStores ==
    \A d \in Downloaders : \A stats \in {x \in SessionStatsOutcomes : ~isBusy(x)} :
        \A copyOk \in [PassHashes -> BOOLEAN], replies \in [PassHashes -> PlanReplies] :
            LET tor == daemon[d]
                copied == copyFinishedDownloads(updateDownloadProgress(store, tor, d), tor, d, copyOk)
                after == progressPass(store, tor, d, stats, copyOk, replies)
                calls == progressCalls(store, tor, d, stats, copyOk)
                due == {id \in DOMAIN copied : /\ copied[id].downloader = d
                                               /\ copied[id].move_state = Moved
                                               /\ copied[id].organize_state = Unplaned
                                               /\ copied[id].state # DownloadDeleted}
            IN  /\ calls = {Call("/v1/plan", id, copied[id].file_list, copied[id].metadata,
                                 <<>>, NilPlans, "") : id \in due}
                /\ Cardinality(calls) = Cardinality(due)
                /\ \A id \in due :
                      (replies[id].sent /\ replies[id].status = 200 /\ replies[id].decodes) =>
                          after[id] = [copied[id] EXCEPT !.organize_plans = replies[id].body,
                                                         !.organize_state = Planed]
                /\ \A id \in DOMAIN copied \ due : after[id] = copied[id]

\* A pass has stored a 200 response that carries an error and no plan.
PlanWithErrorStoredWitness ==
    /\ last.op = "progress"
    /\ \E id \in DOMAIN last.replies :
          /\ last.replies[id] = Reply(TRUE, 200, TRUE, PlanErr)
          /\ PlanRequest(id, store[id].file_list, store[id].metadata) \in last.calls
          /\ store[id].organize_state = Planed
          /\ store[id].organize_plans = PlanErr

\* C29: from every store the program reaches, in the plan step of a Progress
\* Pass that is not busy, a record whose plan call fails (not sent, a status
\* other than 200, or a body that does not decode) gets organize_state
\* CreatePlanFailed and keeps every other field, and every other Moved and
\* Unplaned record is still called and stored by its own answer.
PlanFailureRecorded ==
    \A d \in Downloaders : \A stats \in {x \in SessionStatsOutcomes : ~isBusy(x)} :
        \A copyOk \in [PassHashes -> BOOLEAN], replies \in [PassHashes -> PlanReplies] :
            LET failed(reply) == ~reply.sent \/ reply.status # 200 \/ ~reply.decodes
                tor == daemon[d]
                copied == copyFinishedDownloads(updateDownloadProgress(store, tor, d), tor, d, copyOk)
                after == progressPass(store, tor, d, stats, copyOk, replies)
                calls == progressCalls(store, tor, d, stats, copyOk)
            IN  \A id \in planCandidates(copied, d) :
                    failed(replies[id]) =>
                        /\ after[id] = [copied[id] EXCEPT !.organize_state = CreatePlanFailed]
                        /\ \A other \in planCandidates(copied, d) \ {id} :
                              /\ \E c \in calls : c.dir = other
                              /\ after[other].organize_state =
                                     IF failed(replies[other])
                                     THEN CreatePlanFailed ELSE Planed

\* One pass has recorded a failed plan call on one record and stored the
\* plan of another.
PlanFailedBesidePlannedWitness ==
    /\ last.op = "progress"
    /\ \E refused \in DOMAIN last.replies : \E planned \in DOMAIN last.replies \ {refused} :
          /\ last.replies[refused].status # 200
          /\ store[refused].organize_state = CreatePlanFailed
          /\ store[refused].organize_plans = NilPlans
          /\ last.replies[planned].status = 200
          /\ last.replies[planned].decodes
          /\ store[planned].organize_state = Planed

EnginesIsolated ==
    [][(Acted("progress") \/ Acted("seeding")) =>
         \A id \in DOMAIN store' :
             IF id \in DOMAIN store
             THEN store[id].downloader # last'.id => store'[id] = store[id]
             ELSE store'[id].downloader = last'.id]_vars

\* C23: Execute returns (success, no failures, no error) for status 200,
\* (no success, the decoded failures, no error) for another status with a
\* body that decodes, and (no success, no failures, an error) when the
\* request was not sent or another status came with a body that does not
\* decode; Plan returns the decoded response and no error for status 200,
\* whatever the response's error field holds, and an error and no response
\* for every other status.
ClientOutcomes ==
    [][/\ Acted("Client.Execute") =>
            LET reply == last'.replies[1]
                out == last'.body
            IN  /\ (reply.sent /\ reply.status = 200) =>
                       out.status = "success" /\ out.failed = <<>> /\ out.error = ""
                /\ (reply.sent /\ reply.status # 200 /\ reply.decodes) =>
                       out.status = "" /\ out.failed = reply.body /\ out.error = ""
                /\ (~reply.sent \/ (reply.status # 200 /\ ~reply.decodes)) =>
                       out.status = "" /\ out.failed = <<>> /\ out.error # ""
       /\ Acted("Client.Plan") =>
            LET reply == last'.replies[1]
                out == last'.body
            IN  /\ (reply.sent /\ reply.status = 200 /\ reply.decodes) =>
                       out.plan = reply.body /\ ~out.plan.isNil /\ out.error = ""
                /\ (reply.sent /\ reply.status # 200) =>
                       out.plan.isNil /\ out.error # ""]_vars

\* Plan has returned, without error, a 200 response whose error field is set.
PlanErrorFieldReturnedWitness ==
    /\ last.op = "Client.Plan"
    /\ last.replies[1].status = 200
    /\ last.replies[1].body.error # ""
    /\ last.body.error = ""
    /\ last.body.plan = PlanErr

\* C21: the failed view of a downloader holds, once each, exactly its
\* records that are Moved, not Deleted and in CreatePlanFailed or
\* ExecutePlanFailed; the planned view holds exactly its records that are
\* Moved, not Deleted and Planed; and the rows the plan step asks for never
\* include a Deleted record.
ViewsExcludeDeleted ==
    [][/\ (Acted("statuses") /\ last'.code = 200 /\ last'.hint = "failed") =>
            LET listed == last'.body.resources
            IN  /\ BagToSet(listed) =
                       {id \in DOMAIN store :
                           /\ store[id].downloader = last'.id
                           /\ store[id].move_state = Moved
                           /\ store[id].organize_state \in {CreatePlanFailed, ExecutePlanFailed}
                           /\ store[id].state # DownloadDeleted}
                /\ \A id \in BagToSet(listed) : CopiesIn(id, listed) = 1
       /\ (Acted("statuses") /\ last'.code = 200 /\ last'.hint = "planned") =>
            BagToSet(last'.body.resources) =
                {id \in DOMAIN store :
                    /\ store[id].downloader = last'.id
                    /\ store[id].move_state = Moved
                    /\ store[id].organize_state = Planed
                    /\ store[id].state # DownloadDeleted}
       /\ Acted("statuses") =>
            \A d \in CountDownloaders : \A id \in planCandidates(store, d) :
                store[id].state # DownloadDeleted]_vars

\* The failed view was served with a record whose plan execution failed
\* while the table held a Deleted record of the same downloader that is
\* Moved and whose plan creation failed.
FailedViewWitness ==
    /\ last.op = "statuses"
    /\ last.hint = "failed"
    /\ last.code = 200
    /\ \E id \in BagToSet(last.body.resources) :
          store[id].organize_state = ExecutePlanFailed
    /\ \E id \in DOMAIN store \ BagToSet(last.body.resources) :
          /\ store[id].downloader = last.id
          /\ store[id].state = DownloadDeleted
          /\ store[id].move_state = Moved
          /\ store[id].organize_state = CreatePlanFailed

\* ---------------------------------------------- the last ten statements

\* C40: the organize endpoint answers 404 for an id without a record whatever
\* the action parameter is, and 400 for an existing record with a missing or
\* unknown action; in both cases the organizer is not called and no record
\* changes.
OrganizeErrorsInOrder ==
    [][(last'.tick # last.tick
        /\ last'.op \in {"organize", "accept_plan", "manual_organized", "re_plan"})
       => /\ last'.id \notin DOMAIN store
             => last'.code = 404 /\ last'.calls = {} /\ store' = store
          /\ (last'.id \in DOMAIN store /\ last'.op = "organize")
             => last'.code = 400 /\ last'.calls = {} /\ store' = store]_vars

\* An unknown action was refused for a record that exists.
UnknownActionRefusedWitness ==
    /\ last.op = "organize"
    /\ last.id \in DOMAIN store
    /\ last.code = 400

\* C31: the stop step of a Seeding Policy Pass sends one stop RPC naming the
\* scheduled torrents, and none when nothing is scheduled; after a successful
\* RPC exactly the scheduled records are set to Stopped, and after a failed one
\* no record's state differs from its state before the step.
StopStepStoresAfterRpc ==
    \A d \in Downloaders : \A order \in Orders(DOMAIN daemon[d]) : \A stopOk \in BOOLEAN :
        LET loop == stopLoop(store, daemon[d], d, today, order, {})
            r == stopTorrents(store, daemon[d], d, today, order, stopOk)
        IN  ~loop.panicked =>
              /\ r.rpcs = IF loop.stopIDs = {} THEN {}
                          ELSE {Rpc("torrent-stop", loop.stopIDs)}
              /\ loop.stopIDs \subseteq DOMAIN store
              /\ \A id \in DOMAIN store :
                    r.store[id].state =
                        IF stopOk /\ id \in loop.stopIDs
                        THEN DownloadStopped ELSE store[id].state
              /\ \A id \in DOMAIN r.store :
                    [r.store[id] EXCEPT !.state = DownloadStarted]
                        = [loop.store[id] EXCEPT !.state = DownloadStarted]

\* A pass stopped a torrent and the record is Stopped.
StoppedAfterRpcWitness ==
    /\ last.op = "seeding"
    /\ \E id \in RpcIds(last, "torrent-stop") :
          /\ id \notin RpcIds(last, "torrent-remove")
          /\ store[id].state = DownloadStopped
          /\ daemon[last.id][id].status = TorrentStatusStopped

\* C32: in one Seeding Policy Pass the stop step and its store update are
\* complete before the retire step queries the store: a torrent in the list
\* whose record is Seeding and Moved and which the stop rule schedules is
\* stopped, removed and its record marked Deleted in that same pass, when both
\* RPCs succeed.
StoppedAndRetiredInOnePass ==
    \A d \in Downloaders : \A order \in Orders(DOMAIN daemon[d]) :
        LET loop == stopLoop(store, daemon[d], d, today, order, {})
            r == seedingPass(store, daemon[d], d, today, order, TRUE, TRUE)
        IN  ~r.panicked =>
              \A id \in loop.stopIDs :
                  (/\ store[id].state = DownloadSeeding
                   /\ store[id].move_state = Moved
                   /\ store[id].downloader = d)
                  => /\ r.store[id].state = DownloadDeleted
                     /\ id \notin DOMAIN r.tor
                     /\ id \in RpcIds(r, "torrent-stop")
                     /\ id \in RpcIds(r, "torrent-remove")

\* A pass stopped and removed the same torrent and the record is Deleted.
StoppedAndRetiredWitness ==
    /\ last.op = "seeding"
    /\ \E id \in RpcIds(last, "torrent-stop") \cap RpcIds(last, "torrent-remove") :
          /\ store[id].state = DownloadDeleted
          /\ store[id].move_state = Moved
          /\ id \notin DOMAIN daemon[last.id]

\* C33 as stated: a record that is Seeding, Moved and Organized and whose
\* upload over the policy's interval is below the bound is Stopped after the
\* pass that stops it, and becomes Deleted only in the pass of the next day.
StoppedRecordRetiredNextDay ==
    \A d \in Downloaders : \A order \in Orders(DOMAIN daemon[d]) :
        LET loop == stopLoop(store, daemon[d], d, today, order, {})
            r == seedingPass(store, daemon[d], d, today, order, TRUE, TRUE)
        IN  ~r.panicked =>
              \A id \in loop.stopIDs :
                  (/\ store[id].state = DownloadSeeding
                   /\ store[id].move_state = Moved
                   /\ store[id].organize_state = Organized
                   /\ store[id].downloader = d)
                  => r.store[id].state = DownloadStopped

\* C33 amended: that record is Deleted after the very pass that stops it when
\* the remove RPC succeeds; when the remove RPC fails it is Stopped after
\* the pass, its torrent stays in the list, and the next day's pass whose
\* remove RPC succeeds marks it Deleted.
OrganizedRecordRetiredBySamePass ==
    \A d \in Downloaders : \A order \in Orders(DOMAIN daemon[d]) :
        LET loop == stopLoop(store, daemon[d], d, today, order, {})
            both == seedingPass(store, daemon[d], d, today, order, TRUE, TRUE)
            kept == seedingPass(store, daemon[d], d, today, order, TRUE, FALSE)
            next == seedingPass(kept.store, kept.tor, d, today + 1, order, TRUE, TRUE)
        IN  ~both.panicked =>
              \A id \in loop.stopIDs :
                  (/\ store[id].state = DownloadSeeding
                   /\ store[id].move_state = Moved
                   /\ store[id].organize_state = Organized
                   /\ store[id].downloader = d)
                  => /\ both.store[id].state = DownloadDeleted
                     /\ id \notin DOMAIN both.tor
                     /\ kept.store[id].state = DownloadStopped
                     /\ id \in DOMAIN kept.tor
                     /\ ~next.panicked
                     /\ next.store[id].state = DownloadDeleted
                     /\ id \notin DOMAIN next.tor

\* An organized record was stopped and retired by one pass.
OrganizedRetiredWitness ==
    /\ last.op = "seeding"
    /\ \E id \in RpcIds(last, "torrent-stop") \cap RpcIds(last, "torrent-remove") :
          /\ store[id].state = DownloadDeleted
          /\ store[id].organize_state = Organized

\* C34: a torrent reported Seeding without a record makes the pass create the
\* record (id the hash, this downloader, state Seeding, the daemon's title,
\* upload_histories exactly today's sample) without scheduling it for
\* stopping; with a record, today's upload is stored under today's date, and
\* a second pass on the same day overwrites that sample without adding a key.
SeedingSampleRecorded ==
    \A d \in Downloaders : \A order \in Orders(DOMAIN daemon[d]) :
        LET tor == daemon[d]
            loop == stopLoop(store, tor, d, today, order, {})
        IN  \A id \in {h \in DOMAIN tor : tor[h].status = TorrentStatusSeed} :
              /\ id \notin DOMAIN store =>
                    /\ id \in DOMAIN loop.store
                    /\ loop.store[id] =
                          [downloader |-> d, download_progress |-> 0, size |-> 0,
                           state |-> DownloadSeeding,
                           upload_histories |->
                               [isNil |-> FALSE, m |-> (today :> tor[id].uploaded_ever)],
                           res_title |-> tor[id].name, file_list |-> <<>>,
                           metadata |-> NoMetadata, move_state |-> UnMoved,
                           organize_state |-> Unplaned, organize_plans |-> NilPlans]
                    /\ id \notin loop.stopIDs
              /\ id \in DOMAIN store =>
                    /\ today \in DOMAIN loop.store[id].upload_histories.m
                    /\ loop.store[id].upload_histories.m[today] = tor[id].uploaded_ever
              /\ \A u \in UploadedValues :
                    LET again == stopLoop(loop.store,
                                          [tor EXCEPT ![id].uploaded_ever = u],
                                          d, today, order, {})
                    IN  /\ DOMAIN again.store[id].upload_histories.m
                              = DOMAIN loop.store[id].upload_histories.m
                        /\ again.store[id].upload_histories.m[today] = u

\* C35: the sub-steps of a Progress Pass run in the order update, busy check,
\* copy, plan, each on the store the previous one left: a record that is
\* Started, UnMoved and Unplaned and whose torrent reports Seeding is, by one
\* pass that is not busy and whose copy succeeds, promoted to Seeding, marked
\* Moved with the torrent's file list, sent to the organizer with that file
\* list, and left Planed or CreatePlanFailed.
SubStepsChained ==
    \A d \in Downloaders : \A stats \in {x \in SessionStatsOutcomes : ~isBusy(x)} :
        \A copyOk \in [PassHashes -> BOOLEAN], replies \in [PassHashes -> PlanReplies] :
            LET tor == daemon[d]
                after == progressPass(store, tor, d, stats, copyOk, replies)
                answered(reply) == reply.sent /\ reply.status = 200 /\ reply.decodes
            IN  \A id \in DOMAIN store \cap DOMAIN tor :
                    (/\ store[id].downloader = d
                     /\ store[id].state = DownloadStarted
                     /\ store[id].move_state = UnMoved
                     /\ store[id].organize_state = Unplaned
                     /\ tor[id].status = TorrentStatusSeed
                     /\ copyOk[id])
                    => /\ after[id].state = DownloadSeeding
                       /\ after[id].move_state = Moved
                       /\ after[id].file_list = tor[id].files
                       /\ PlanRequest(id, tor[id].files, store[id].metadata)
                              \in progressCalls(store, tor, d, stats, copyOk)
                       /\ after[id].organize_state =
                              IF answered(replies[id]) THEN Planed ELSE CreatePlanFailed

\* A pass asked the organizer for the plan of a registered record, which is
\* now Seeding, Moved and Planed.
PromotedCopiedPlannedWitness ==
    /\ last.op = "progress"
    /\ \E id \in DOMAIN last.replies :
          /\ id \in DOMAIN store
          /\ store[id].res_title = IndexerTitle
          /\ store[id].state = DownloadSeeding
          /\ store[id].move_state = Moved
          /\ store[id].organize_state = Planed
          /\ \E c \in last.calls : c.dir = id /\ c.files = DaemonFiles

\* C38: in the answer of the planned view count_of_planned is the number of
\* resources listed in that answer, and in the answer of the failed view
\* count_of_failed is the number of resources listed, also after records have
\* been retired to Deleted.
ViewCountsMatchLists ==
    \A d \in Downloaders :
        LET planned == getDownloaderStatuses(store, d, "planned")
            failed == getDownloaderStatuses(store, d, "failed")
        IN  /\ planned.code = 200
            /\ planned.body.state.count_of_planned = BagCardinality(planned.body.resources)
            /\ failed.code = 200
            /\ failed.body.state.count_of_failed = BagCardinality(failed.body.resources)

\* C36: when two registrations of one hash overlap so that both make the
\* duplicate check before either inserts, one of them answers 200 and the
\* other, whose insert comes second, answers 409 and leaves the one record
\* of the hash as it is.
DuplicateRaceAnswersConflict ==
    [][(/\ run.req.phase = "checked"
        /\ run.req.action = "register"
        /\ run'.req.phase = "none"
        /\ run.req.id \in DOMAIN store)
       => /\ last'.op = "register"
          /\ last'.code = 409
          /\ store' = store]_vars

\* C37: for every seeding policy that validation accepts, the sample of day
\* d is still in the history when the pass of day d+N looks it up, because
\* the cleanup earlier in that pass does not purge it; so a torrent sampled
\* N days ago gets its decision.
SampleOutlivesInterval ==
    \A d \in Downloaders : \A id \in DOMAIN daemon[d] \cap DOMAIN store :
        \A n \in 0..(StoreMaxDays + 1) :
            LET p == [IntervalInDays |-> n, UploadAtLeastInMB |-> UploadAtLeastInMB]
                t == daemon[d][id]
                row == sampledRow(store[id], t, today)
            IN  (/\ Validate(p)
                 /\ t.status = TorrentStatusSeed
                 /\ ~store[id].upload_histories.isNil
                 /\ (today - p.IntervalInDays) \in DOMAIN store[id].upload_histories.m)
                => GetXDayBefore(row.upload_histories, today, p.IntervalInDays).ok

\* C39: with the Progress Pass weakly fair, a record whose torrent stays in
\* the daemon's list and from some point on reports Seeding, while the daemon
\* is idle and the copy succeeds again and again, is eventually Moved with an
\* organize_state other than Unplaned, whatever Seeding Policy Passes and
\* operator commands come in between.
ProgressIsMade ==
    \A d \in Downloaders : \A id \in Hashes :
        <>[](/\ id \in DOMAIN store
             /\ store[id].downloader = d
             /\ id \in DOMAIN daemon[d]
             /\ daemon[d][id].status = TorrentStatusSeed)
        => <>(/\ id \in DOMAIN store
              /\ store[id].move_state = Moved
              /\ store[id].organize_state # Unplaned)

====
